---- MODULE Spec2Model ----
(***************************************************************************)
(* Model of the playbook variable gateway of tcex-app-playbook:            *)
(*   PlaybookCreate (src/playbook_create.py)  - typed write operations     *)
(*   PlaybookRead   (src/playbook_read.py)    - typed read operations      *)
(* over a key value store keyed by (context, variable text).               *)
(*                                                                         *)
(* Python values are tagged records.  A Python str is a sequence of text   *)
(* chunks ("atoms"): a chunk is either the full text of one variable token *)
(* or a run of literal characters that neither contains nor extends a      *)
(* token.  bytes are sequences of integers 0..255.                         *)
(***************************************************************************)
EXTENDS Integers, Sequences, FiniteSets, TLC

VARIABLES
    store,             \* key value store: <<context, key>> -> value held
    output_variables,  \* PlaybookCreate.output_variables (requested outputs)
    write_null_env,    \* os.getenv('TC_PLAYBOOK_WRITE_NULL') is not None
    client_kind,       \* class of key_value_store.client
    pc,                \* position of the calling App
    wcall,             \* the write call made (operation and arguments)
    wret,              \* its outcome: returned value or raised error
    wlog,              \* store client calls issued by the write call
    rcall,             \* the read call made (operation and arguments)
    rret,              \* its outcome: returned value or raised error
    rlog,              \* store client calls issued by the read call
    failing,           \* keys for which the store client raises RuntimeError
    soft_failed        \* a create of an earlier write call failed

vars == <<store, output_variables, write_null_env, client_kind, pc,
          wcall, wret, wlog, rcall, rret, rlog, failing, soft_failed>>

-----------------------------------------------------------------------------
(* Python values *)

PyNone == [t |-> "NoneType"]
PyStr(s) == [t |-> "str", s |-> s]
StringVariable(s) == [t |-> "StringVariable", s |-> s]
Sensitive(s) == [t |-> "Sensitive", s |-> s]
PyBytes(y) == [t |-> "bytes", y |-> y]
BinaryVariable(y) == [t |-> "BinaryVariable", y |-> y]
PyBool(b) == [t |-> "bool", b |-> b]
PyInt(i) == [t |-> "int", i |-> i]
PyList(l) == [t |-> "list", l |-> l]
PyDict(d) == [t |-> "dict", d |-> d]
\* a str whose characters are the JSON document j
JsonText(j) == [t |-> "jsonstr", j |-> j]

\* isinstance(v, str): StringVariable subclasses str
IsStr(v) == v.t \in {"str", "StringVariable", "jsonstr"}
\* isinstance(v, bytes): BinaryVariable subclasses bytes
IsBytes(v) == v.t \in {"bytes", "BinaryVariable"}
IsNone(v) == v.t = "NoneType"
IsList(v) == v.t = "list"
IsDict(v) == v.t = "dict"
IsSensitive(v) == v.t = "Sensitive"

\* outcome of a call: a returned value, or a raised exception
Return(v) == [raised |-> "", v |-> v]
Raise(e) == [raised |-> e, v |-> PyNone]

\* the exceptions the two classes raise, by the message of the raise site
WrongType == "RuntimeError: Invalid variable provided, variable must be of type"
InvalidIterable == "RuntimeError: Invalid data provided for KeyValueArray. (iterable)"
InvalidObjectType == "RuntimeError: Invalid type provided for object type"
InvalidBinary == "RuntimeError: Invalid data provided for Binary."
InvalidKeyValue == "RuntimeError: Invalid data provided for KeyValueArray."
InvalidString == "RuntimeError: Invalid data provided for String"
InvalidStringArray == "RuntimeError: Invalid data provided for StringArray."
InvalidTcBatch == "RuntimeError: Invalid data provided for TcBatch."
InvalidTcEntity == "RuntimeError: Invalid data provided for TcEntityArray."
JsonLoadFailed == "RuntimeError: Failed to JSON load data"
TypeErrorRaised == "TypeError"
ValueErrorRaised == "ValueError"
RecursionErrorRaised == "RecursionError"
\* the RuntimeError a failing store client raises
StoreFailed == "RuntimeError: key value store"

InvalidShape == {InvalidIterable, InvalidObjectType, InvalidBinary, InvalidKeyValue,
                 InvalidString, InvalidStringArray, InvalidTcBatch, InvalidTcEntity}


-----------------------------------------------------------------------------
(* Variable grammar: <origin><producer>:<id>:<key>!<Type>.  The texts the   *)
(* model works with, each with the parts the grammar's parse gives.        *)

PlaybookVariables ==
    { [text |-> "#App:1:x!String",        key |-> "x",   type |-> "String"],
      [text |-> "#App:1:y!String",        key |-> "y",   type |-> "String"],
      [text |-> "#App:1:z!String",        key |-> "z",   type |-> "String"],
      [text |-> "#App:1:x!Binary",        key |-> "x",   type |-> "Binary"],
      [text |-> "#App:1:ba!BinaryArray",  key |-> "ba",  type |-> "BinaryArray"],
      [text |-> "#App:1:sa!StringArray",  key |-> "sa",  type |-> "StringArray"],
      [text |-> "#App:1:kv!KeyValue",     key |-> "kv",  type |-> "KeyValue"],
      [text |-> "#App:1:kva!KeyValueArray", key |-> "kva", type |-> "KeyValueArray"],
      [text |-> "#App:1:e!TCEntity",      key |-> "e",   type |-> "TCEntity"],
      [text |-> "#App:1:ea!TCEntityArray", key |-> "ea", type |-> "TCEntityArray"],
      [text |-> "#App:1:t!TCBatch",       key |-> "t",   type |-> "TCBatch"],
      [text |-> "#App:1:u!string",        key |-> "u",   type |-> "string"],
      [text |-> "#App:1:c!Custom",        key |-> "c",   type |-> "Custom"] }

PbTokens == { m.text : m \in PlaybookVariables }

\* platform ('&' origin) variables; their match has no type group
KeychainToken == "&{TC:KEYCHAIN:k1}"
TextToken == "&{TC:TEXT:t1}"
TcTokens == {KeychainToken, TextToken}

Tokens == PbTokens \cup TcTokens

\* the absent str (Python None where a str is expected); str(None) is "None"
None == "None"

\* key.strip(): the one key text of the model that carries white space
PaddedKey == " #App:1:x!String "
Strip(key) == IF key = PaddedKey THEN "#App:1:x!String" ELSE key

NoModel == [text |-> None, key |-> None, type |-> None]

\* Util.is_playbook_variable(key): the whole text is one '#' variable
is_playbook_variable(key) == key \in PbTokens

\* the same test on a Python value (False for anything that is not a str)
IsVariableValue(v) ==
    /\ v.t \in {"str", "StringVariable"}
    /\ Len(v.s) = 1
    /\ is_playbook_variable(v.s[1])

\* Util.get_playbook_variable_model(variable): strips, then parses
get_playbook_variable_model(variable) ==
    IF Strip(variable) \in PbTokens
    THEN CHOOSE m \in PlaybookVariables : m.text = Strip(variable)
    ELSE NoModel

\* Util.get_playbook_variable_type(variable): the parsed type tag
get_playbook_variable_type(variable) ==
    get_playbook_variable_model(variable).type

\* str.lower() on the type tags
Lower(type) ==
    CASE type = "String" -> "string"
      [] type = "Binary" -> "binary"
      [] type = "BinaryArray" -> "binaryarray"
      [] type = "StringArray" -> "stringarray"
      [] type = "KeyValue" -> "keyvalue"
      [] type = "KeyValueArray" -> "keyvaluearray"
      [] type = "TCEntity" -> "tcentity"
      [] type = "TCEntityArray" -> "tcentityarray"
      [] type = "TCBatch" -> "tcbatch"
      [] type = "Custom" -> "custom"
      [] OTHER -> type

-----------------------------------------------------------------------------
(* JSON: json.dumps maps a Python value to a JSON document, json.loads     *)
(* maps a document back.  Documents are trees; Render spells one as text.  *)

JNull == [j |-> "null"]
JBool(b) == [j |-> "bool", b |-> b]
JNumber(i) == [j |-> "number", i |-> i]
JString(s) == [j |-> "string", s |-> s]
JArray(l) == [j |-> "array", l |-> l]
JObject(d) == [j |-> "object", d |-> d]

RECURSIVE Render(_)
RECURSIVE RenderItems(_, _)
RECURSIVE RenderPairs(_, _)
Render(j) ==
    CASE j.j = "null" -> <<"null">>
      [] j.j = "bool" -> IF j.b THEN <<"true">> ELSE <<"false">>
      [] j.j = "number" -> <<ToString(j.i)>>
      [] j.j = "string" -> <<"\"">> \o j.s \o <<"\"">>
      [] j.j = "array" -> <<"[">> \o RenderItems(j.l, 1) \o <<"]">>
      [] j.j = "object" -> <<"{">> \o RenderPairs(j.d, 1) \o <<"}">>
RenderItems(l, i) ==
    IF i > Len(l) THEN <<>>
    ELSE (IF i > 1 THEN <<", ">> ELSE <<>>) \o Render(l[i]) \o RenderItems(l, i + 1)
RenderPairs(d, i) ==
    IF i > Len(d) THEN <<>>
    ELSE (IF i > 1 THEN <<", ">> ELSE <<>>)
         \o <<"\"", d[i].k, "\"", ": ">> \o Render(d[i].v) \o RenderPairs(d, i + 1)

\* the characters of a str, as chunks
TextOf(v) == IF v.t = "jsonstr" THEN Render(v.j) ELSE v.s

\* json.dumps raises TypeError on bytes and on objects it does not know
RECURSIVE Serializable(_)
Serializable(v) ==
    CASE v.t \in {"NoneType", "bool", "int", "str", "StringVariable", "jsonstr"} -> TRUE
      [] v.t = "list" -> \A i \in 1..Len(v.l) : Serializable(v.l[i])
      [] v.t = "dict" -> \A i \in 1..Len(v.d) : Serializable(v.d[i].v)
      [] OTHER -> FALSE

RECURSIVE ToJson(_)
ToJson(v) ==
    CASE v.t = "NoneType" -> JNull
      [] v.t = "bool" -> JBool(v.b)
      [] v.t = "int" -> JNumber(v.i)
      [] v.t \in {"str", "StringVariable", "jsonstr"} -> JString(TextOf(v))
      [] v.t = "list" -> JArray([i \in 1..Len(v.l) |-> ToJson(v.l[i])])
      [] v.t = "dict" -> JObject([i \in 1..Len(v.d) |->
                                     [k |-> v.d[i].k, v |-> ToJson(v.d[i].v)]])

RECURSIVE FromJson(_)
FromJson(j) ==
    CASE j.j = "null" -> PyNone
      [] j.j = "bool" -> PyBool(j.b)
      [] j.j = "number" -> PyInt(j.i)
      [] j.j = "string" -> PyStr(j.s)
      [] j.j = "array" -> PyList([i \in 1..Len(j.l) |-> FromJson(j.l[i])])
      [] j.j = "object" -> PyDict([i \in 1..Len(j.d) |->
                                      [k |-> j.d[i].k, v |-> FromJson(j.d[i].v)]])

\* json.dumps(value)
json_dumps(value) ==
    IF Serializable(value) THEN Return(JsonText(ToJson(value)))
    ELSE Raise(TypeErrorRaised)

\* json.loads(value): the literal text chunks and the byte strings of the
\* model never spell a JSON document; anything but str/bytes is a TypeError
json_loads(value) ==
    CASE value.t = "jsonstr" -> Return(FromJson(value.j))
      [] value.t \in {"str", "StringVariable"} -> Raise(ValueErrorRaised)
      [] IsBytes(value) -> Raise(ValueErrorRaised)
      [] OTHER -> Raise(TypeErrorRaised)

-----------------------------------------------------------------------------
(* base64 *)

B64Alphabet ==
    << "A","B","C","D","E","F","G","H","I","J","K","L","M","N","O","P",
       "Q","R","S","T","U","V","W","X","Y","Z","a","b","c","d","e","f",
       "g","h","i","j","k","l","m","n","o","p","q","r","s","t","u","v",
       "w","x","y","z","0","1","2","3","4","5","6","7","8","9","+","/" >>

B64Char(n) == B64Alphabet[n + 1]
B64Index(c) == (CHOOSE i \in 1..Len(B64Alphabet) : B64Alphabet[i] = c) - 1
IsB64Char(c) == \E i \in 1..Len(B64Alphabet) : B64Alphabet[i] = c

\* base64.b64encode(y).decode('utf-8'): three bytes give four characters
RECURSIVE base64_b64encode(_)
base64_b64encode(y) ==
    CASE Len(y) = 0 -> <<>>
      [] Len(y) = 1 ->
            << B64Char(y[1] \div 4), B64Char((y[1] % 4) * 16), "=", "=" >>
      [] Len(y) = 2 ->
            << B64Char(y[1] \div 4),
               B64Char((y[1] % 4) * 16 + (y[2] \div 16)),
               B64Char((y[2] % 16) * 4), "=" >>
      [] OTHER ->
            << B64Char(y[1] \div 4),
               B64Char((y[1] % 4) * 16 + (y[2] \div 16)),
               B64Char((y[2] % 16) * 4 + (y[3] \div 64)),
               B64Char(y[3] % 64) >> \o base64_b64encode(SubSeq(y, 4, Len(y)))

\* text that base64.b64decode accepts: groups of four alphabet characters,
\* the last one possibly padded
RECURSIVE B64Valid(_)
B64Valid(s) ==
    CASE Len(s) = 0 -> TRUE
      [] Len(s) < 4 -> FALSE
      [] Len(s) = 4 ->
            /\ IsB64Char(s[1]) /\ IsB64Char(s[2])
            /\ \/ IsB64Char(s[3]) /\ IsB64Char(s[4])
               \/ IsB64Char(s[3]) /\ s[4] = "="
               \/ s[3] = "=" /\ s[4] = "="
      [] OTHER ->
            /\ \A i \in 1..4 : IsB64Char(s[i])
            /\ B64Valid(SubSeq(s, 5, Len(s)))

RECURSIVE B64Bytes(_)
B64Bytes(s) ==
    IF Len(s) = 0 THEN <<>>
    ELSE LET a == B64Index(s[1])
             b == B64Index(s[2])
         IN  CASE s[3] = "=" -> << a * 4 + (b \div 16) >>
               [] s[4] = "=" ->
                    LET c == B64Index(s[3])
                    IN  << a * 4 + (b \div 16), (b % 16) * 16 + (c \div 4) >>
               [] OTHER ->
                    LET c == B64Index(s[3])
                        d == B64Index(s[4])
                    IN  << a * 4 + (b \div 16), (b % 16) * 16 + (c \div 4),
                           (c % 4) * 64 + d >> \o B64Bytes(SubSeq(s, 5, Len(s)))

\* base64.b64decode(data) of a str: binascii.Error (a ValueError) on text
\* that is not base64
base64_b64decode(data) ==
    IF B64Valid(TextOf(data)) THEN Return(PyBytes(B64Bytes(TextOf(data))))
    ELSE Raise(ValueErrorRaised)

-----------------------------------------------------------------------------
(* The key value store client *)

\* PlaybookCreate.context and PlaybookRead.context: one session id
Context == "ctx-1"
OtherContext == "ctx-2"

KeyValueRedis == "KeyValueRedis"
KeyValueApi == "KeyValueApi"

Stored(st, context, key) == <<context, key>> \in DOMAIN st

\* the store after the calls of a log, applied in order
RECURSIVE ApplyLog(_, _)
ApplyLog(st, log) ==
    IF Len(log) = 0 THEN st
    ELSE LET c == Head(log)
             st1 == IF c.m \in {"create", "hset"}
                    THEN [p \in (DOMAIN st) \cup {<<c.context, c.key>>} |->
                             IF p = <<c.context, c.key>> THEN c.value ELSE st[p]]
                    ELSE st
         IN  ApplyLog(st1, Tail(log))

\* outcome of an operation together with the store calls it issued
Done(outcome, log) == [raised |-> outcome.raised, v |-> outcome.v, log |-> log]

-----------------------------------------------------------------------------
(* PlaybookCreate *)

\* a pydantic model object; dict(exclude_unset=True) gives its fields
BaseModel(d) == [t |-> "BaseModel", d |-> d]

HasKey(data, k) == \E i \in 1..Len(data.d) : data.d[i].k = k
Get(data, k) == data.d[CHOOSE i \in 1..Len(data.d) : data.d[i].k = k].v

\* isinstance(value, Iterable)
IsIterable(value) ==
    value.t \in {"list", "dict", "str", "StringVariable", "jsonstr", "bytes",
                 "BinaryVariable"}

\* the items a for loop over value yields
Items(value) ==
    CASE value.t = "list" -> value.l
      [] value.t = "dict" -> [i \in 1..Len(value.d) |-> PyStr(<<value.d[i].k>>)]
      [] IsStr(value) -> [i \in 1..Len(TextOf(value)) |-> PyStr(<<TextOf(value)[i]>>)]
      [] IsBytes(value) -> [i \in 1..Len(value.y) |-> PyInt(value.y[i])]

_check_iterable(value, validate) ==
    IF validate /\ (IsDict(value) \/ IsStr(value) \/ ~IsIterable(value))
    THEN Raise(InvalidIterable)
    ELSE Return(PyNone)

\* _get_variable that returns the first requested variable of the bare key,
\* whatever the type asked for
_get_variable_first_key(key, variable_type) ==
    IF ~is_playbook_variable(key)
    THEN LET hit(i) == get_playbook_variable_model(output_variables[i]).key = key
         IN  IF \E i \in 1..Len(output_variables) : hit(i)
             THEN output_variables[CHOOSE i \in 1..Len(output_variables) :
                                      hit(i) /\ \A j \in 1..(i - 1) : ~hit(j)]
             ELSE None
    ELSE key

_get_variable(key, variable_type) ==
    IF ~is_playbook_variable(key)
    THEN LET hit(i) ==
                 LET variable_model == get_playbook_variable_model(output_variables[i])
                 IN  /\ variable_model # NoModel
                     /\ variable_model.key = key
                     /\ (variable_type = None \/ variable_model.type = variable_type)
         IN  IF \E i \in 1..Len(output_variables) : hit(i)
             THEN output_variables[CHOOSE i \in 1..Len(output_variables) :
                                      hit(i) /\ \A j \in 1..(i - 1) : ~hit(j)]
             ELSE None
    ELSE key

\* _check_null without the isinstance test of the client
_check_null_any_client(key, value) ==
    [ invalid |-> (key = None) \/ IsNone(value),
      log |-> IF IsNone(value) /\ write_null_env
              THEN << [m |-> "hset", context |-> Context,
                       key |-> _get_variable(key, None) \o "_NULL_VALIDATION",
                       value |-> PyStr(<<>>)] >>
              ELSE <<>> ]

_check_null(key, value) ==
    [ invalid |-> (key = None) \/ IsNone(value),
      log |-> IF IsNone(value) /\ write_null_env /\ client_kind = KeyValueRedis
              THEN << [m |-> "hset", context |-> Context,
                       key |-> _get_variable(key, None) \o "_NULL_VALIDATION",
                       value |-> PyStr(<<>>)] >>
              ELSE <<>> ]

is_requested(variable) ==
    \E i \in 1..Len(output_variables) : output_variables[i] = variable

_check_requested(variable, when_requested) ==
    IF when_requested /\ ~is_requested(variable) THEN FALSE ELSE TRUE

\* _check_variable_type that only asks for some type tag
_check_variable_type_any_tag(variable, type_) ==
    IF get_playbook_variable_type(variable) = None
    THEN Raise(WrongType)
    ELSE Return(PyNone)

_check_variable_type(variable, type_) ==
    IF Lower(get_playbook_variable_type(variable)) # Lower(type_)
    THEN Raise(WrongType)
    ELSE Return(PyNone)

_coerce_string_value(value) ==
    CASE value.t = "bool" -> PyStr(<<IF value.b THEN "true" ELSE "false">>)
      [] value.t = "int" -> PyStr(<<ToString(value.i)>>)
      [] OTHER -> value

\* _create_data without its try/except: the RuntimeError of the client escapes
_create_data_uncaught(key, value) ==
    IF Strip(key) \in failing
    THEN Done(Raise(StoreFailed),
              << [m |-> "create_failed", context |-> Context, key |-> Strip(key),
                  value |-> value] >>)
    ELSE Done(Return(PyInt(IF Stored(store, Context, Strip(key)) THEN 0 ELSE 1)),
              << [m |-> "create", context |-> Context, key |-> Strip(key),
                  value |-> value] >>)

\* _create_data that creates the entry in the context of another session
_create_data_other_context(key, value) ==
    Done(Return(PyInt(IF Stored(store, OtherContext, Strip(key)) THEN 0 ELSE 1)),
         << [m |-> "create", context |-> OtherContext, key |-> Strip(key),
             value |-> value] >>)

\* client.create: Redis HSET answers 1 for a new field, 0 for an update; a
\* RuntimeError of the client is caught and None returned
_create_data(key, value) ==
    IF Strip(key) \in failing
    THEN Done(Return(PyNone),
              << [m |-> "create_failed", context |-> Context, key |-> Strip(key),
                  value |-> value] >>)
    ELSE Done(Return(PyInt(IF Stored(store, Context, Strip(key)) THEN 0 ELSE 1)),
              << [m |-> "create", context |-> Context, key |-> Strip(key),
                  value |-> value] >>)

\* json.dumps raises ValueError only on circular or non-finite data, which
\* the tree-shaped values of the model never are; a TypeError is not caught
_serialize_data(value) == json_dumps(value)

_process_object_types(value, validate, allow_none) ==
    LET types == IF allow_none THEN {"BaseModel", "dict", "NoneType"}
                 ELSE {"BaseModel", "dict"}
    IN  IF validate /\ value.t \notin types
        THEN Raise(InvalidObjectType)
        ELSE IF value.t = "BaseModel" THEN Return(PyDict(value.d))
        ELSE Return(value)

\* is_key_value that looks for the key field only
is_key_value_key_only(data) ==
    IF ~IsDict(data) THEN FALSE
    ELSE HasKey(data, "key")

is_key_value(data) ==
    IF ~IsDict(data) THEN FALSE
    ELSE HasKey(data, "key") /\ HasKey(data, "value")

is_tc_batch(data) ==
    IF ~IsDict(data) THEN FALSE
    ELSE IF HasKey(data, "indicator") /\ ~IsList(Get(data, "indicator")) THEN FALSE
    ELSE ~HasKey(data, "group") \/ IsList(Get(data, "group"))

is_tc_entity(data) ==
    IF ~IsDict(data) THEN FALSE
    ELSE HasKey(data, "id") /\ HasKey(data, "value") /\ HasKey(data, "type")

\* the first raise of a loop whose i-th iteration has outcome step(i), or
\* the list of the values the iterations produce
Loop(n, step(_)) ==
    IF \E i \in 1..n : step(i).raised # ""
    THEN Raise(step(CHOOSE i \in 1..n :
                      step(i).raised # "" /\ \A j \in 1..(i - 1) : step(j).raised = "").raised)
    ELSE Return(PyList([i \in 1..n |-> step(i).v]))

\* Commit that creates the entry before it looks at the outcome of the
\* preparation
Commit_create_first(variable, prepared) ==
    IF prepared.raised # "" THEN Done(prepared, _create_data(variable, PyNone).log)
    ELSE LET data == _serialize_data(prepared.v)
         IN  IF data.raised # "" THEN Done(data, _create_data(variable, PyNone).log)
             ELSE _create_data(variable, data.v)

\* serialize, then create: the tail of every typed write
Commit(variable, prepared) ==
    IF prepared.raised # "" THEN Done(prepared, <<>>)
    ELSE LET data == _serialize_data(prepared.v)
         IN  IF data.raised # "" THEN Done(data, <<>>)
             ELSE _create_data(variable, data.v)

create_binary(key, value, validate, when_requested) ==
    LET nul == _check_null(key, value)
        variable == _get_variable(key, "Binary")
    IN  IF nul.invalid THEN Done(Return(PyNone), nul.log)
        ELSE IF variable = None THEN Done(Return(PyNone), <<>>)
        ELSE IF ~_check_requested(variable, when_requested) THEN Done(Return(PyNone), <<>>)
        ELSE IF _check_variable_type(variable, "Binary").raised # ""
             THEN Done(_check_variable_type(variable, "Binary"), <<>>)
        ELSE IF validate /\ ~IsBytes(value) THEN Done(Raise(InvalidBinary), <<>>)
        ELSE IF ~IsBytes(value) THEN Done(Raise(TypeErrorRaised), <<>>)
        ELSE Commit(variable, Return(PyStr(base64_b64encode(value.y))))

create_binary_array(key, value, validate, when_requested) ==
    LET nul == _check_null(key, value)
        variable == _get_variable(key, "BinaryArray")
        step(i) ==
            LET v_ == Items(value)[i]
            IN  IF IsNone(v_) THEN Return(v_)
                ELSE IF validate /\ ~IsBytes(v_) THEN Raise(InvalidBinary)
                ELSE IF ~IsBytes(v_) THEN Raise(TypeErrorRaised)
                ELSE Return(PyStr(base64_b64encode(v_.y)))
    IN  IF nul.invalid THEN Done(Return(PyNone), nul.log)
        ELSE IF _check_iterable(value, validate).raised # ""
             THEN Done(_check_iterable(value, validate), <<>>)
        ELSE IF variable = None THEN Done(Return(PyNone), <<>>)
        ELSE IF ~_check_requested(variable, when_requested) THEN Done(Return(PyNone), <<>>)
        ELSE IF _check_variable_type(variable, "BinaryArray").raised # ""
             THEN Done(_check_variable_type(variable, "BinaryArray"), <<>>)
        ELSE IF ~IsIterable(value) THEN Done(Raise(TypeErrorRaised), <<>>)
        ELSE Commit(variable, Loop(Len(Items(value)), step))

create_key_value(key, value, validate, when_requested) ==
    LET nul == _check_null(key, value)
        variable == _get_variable(key, "KeyValue")
        value_ == _process_object_types(value, validate, FALSE)
    IN  IF nul.invalid THEN Done(Return(PyNone), nul.log)
        ELSE IF variable = None THEN Done(Return(PyNone), <<>>)
        ELSE IF ~_check_requested(variable, when_requested) THEN Done(Return(PyNone), <<>>)
        ELSE IF _check_variable_type(variable, "KeyValue").raised # ""
             THEN Done(_check_variable_type(variable, "KeyValue"), <<>>)
        ELSE IF value_.raised # "" THEN Done(value_, <<>>)
        ELSE IF validate /\ ~is_key_value(value_.v) THEN Done(Raise(InvalidKeyValue), <<>>)
        ELSE Commit(variable, value_)

create_key_value_array(key, value, validate, when_requested) ==
    LET nul == _check_null(key, value)
        variable == _get_variable(key, "KeyValueArray")
        step(i) ==
            LET v_ == _process_object_types(Items(value)[i], validate, TRUE)
            IN  IF v_.raised # "" THEN v_
                ELSE IF validate /\ ~is_key_value(v_.v) THEN Raise(InvalidKeyValue)
                ELSE v_
    IN  IF nul.invalid THEN Done(Return(PyNone), nul.log)
        ELSE IF _check_iterable(value, validate).raised # ""
             THEN Done(_check_iterable(value, validate), <<>>)
        ELSE IF variable = None THEN Done(Return(PyNone), <<>>)
        ELSE IF ~_check_requested(variable, when_requested) THEN Done(Return(PyNone), <<>>)
        ELSE IF _check_variable_type(variable, "KeyValueArray").raised # ""
             THEN Done(_check_variable_type(variable, "KeyValueArray"), <<>>)
        ELSE IF ~IsIterable(value) THEN Done(Raise(TypeErrorRaised), <<>>)
        ELSE Commit(variable, Loop(Len(Items(value)), step))

create_string(key, value, validate, when_requested) ==
    LET nul == _check_null(key, value)
        variable == _get_variable(key, "String")
        value_ == _coerce_string_value(value)
    IN  IF nul.invalid THEN Done(Return(PyNone), nul.log)
        ELSE IF variable = None THEN Done(Return(PyNone), <<>>)
        ELSE IF ~_check_requested(variable, when_requested) THEN Done(Return(PyNone), <<>>)
        ELSE IF _check_variable_type(variable, "String").raised # ""
             THEN Done(_check_variable_type(variable, "String"), <<>>)
        ELSE IF validate /\ ~IsStr(value_) THEN Done(Raise(InvalidString), <<>>)
        ELSE Commit(variable, Return(value_))

create_string_array(key, value, validate, when_requested) ==
    LET nul == _check_null(key, value)
        variable == _get_variable(key, "StringArray")
        step(i) ==
            LET v_ == _coerce_string_value(Items(value)[i])
            IN  IF validate /\ ~(IsNone(v_) \/ IsStr(v_)) THEN Raise(InvalidStringArray)
                ELSE Return(v_)
    IN  IF nul.invalid THEN Done(Return(PyNone), nul.log)
        ELSE IF _check_iterable(value, validate).raised # ""
             THEN Done(_check_iterable(value, validate), <<>>)
        ELSE IF variable = None THEN Done(Return(PyNone), <<>>)
        ELSE IF ~_check_requested(variable, when_requested) THEN Done(Return(PyNone), <<>>)
        ELSE IF _check_variable_type(variable, "StringArray").raised # ""
             THEN Done(_check_variable_type(variable, "StringArray"), <<>>)
        ELSE IF ~IsIterable(value) THEN Done(Raise(TypeErrorRaised), <<>>)
        ELSE Commit(variable, Loop(Len(Items(value)), step))

create_raw(key, value, validate, when_requested) ==
    LET nul == _check_null(key, value)
    IN  IF nul.invalid THEN Done(Return(PyNone), nul.log)
        ELSE _create_data(key, value)

create_tc_batch(key, value, validate, when_requested) ==
    LET nul == _check_null(key, value)
        variable == _get_variable(key, "TCBatch")
        value_ == _process_object_types(value, validate, FALSE)
    IN  IF nul.invalid THEN Done(Return(PyNone), nul.log)
        ELSE IF variable = None THEN Done(Return(PyNone), <<>>)
        ELSE IF ~_check_requested(variable, when_requested) THEN Done(Return(PyNone), <<>>)
        ELSE IF _check_variable_type(variable, "TCBatch").raised # ""
             THEN Done(_check_variable_type(variable, "TCBatch"), <<>>)
        ELSE IF value_.raised # "" THEN Done(value_, <<>>)
        ELSE IF validate /\ ~is_tc_batch(value_.v) THEN Done(Raise(InvalidTcBatch), <<>>)
        ELSE Commit(variable, value_)

create_tc_entity(key, value, validate, when_requested) ==
    LET nul == _check_null(key, value)
        variable == _get_variable(key, "TCEntity")
        value_ == _process_object_types(value, validate, FALSE)
    IN  IF nul.invalid THEN Done(Return(PyNone), nul.log)
        ELSE IF variable = None THEN Done(Return(PyNone), <<>>)
        ELSE IF ~_check_requested(variable, when_requested) THEN Done(Return(PyNone), <<>>)
        ELSE IF _check_variable_type(variable, "TCEntity").raised # ""
             THEN Done(_check_variable_type(variable, "TCEntity"), <<>>)
        ELSE IF value_.raised # "" THEN Done(value_, <<>>)
        ELSE IF validate /\ ~is_tc_entity(value_.v) THEN Done(Raise(InvalidTcEntity), <<>>)
        ELSE Commit(variable, value_)

create_tc_entity_array(key, value, validate, when_requested) ==
    LET nul == _check_null(key, value)
        variable == _get_variable(key, "TCEntityArray")
        step(i) ==
            LET v_ == _process_object_types(Items(value)[i], validate, TRUE)
            IN  IF v_.raised # "" THEN v_
                ELSE IF validate /\ ~is_tc_entity(v_.v) THEN Raise(InvalidTcEntity)
                ELSE v_
    IN  IF nul.invalid THEN Done(Return(PyNone), nul.log)
        ELSE IF _check_iterable(value, validate).raised # ""
             THEN Done(_check_iterable(value, validate), <<>>)
        ELSE IF variable = None THEN Done(Return(PyNone), <<>>)
        ELSE IF ~_check_requested(variable, when_requested) THEN Done(Return(PyNone), <<>>)
        ELSE IF _check_variable_type(variable, "TCEntityArray").raised # ""
             THEN Done(_check_variable_type(variable, "TCEntityArray"), <<>>)
        ELSE IF ~IsIterable(value) THEN Done(Raise(TypeErrorRaised), <<>>)
        ELSE Commit(variable, Loop(Len(Items(value)), step))

\* variable_type_map.get(variable_type, self.raw)(variable, value, validate, when_requested)
variable_type_map(variable_type, variable, value, validate, when_requested) ==
    CASE variable_type = "binary" -> create_binary(variable, value, validate, when_requested)
      [] variable_type = "binaryarray" ->
            create_binary_array(variable, value, validate, when_requested)
      [] variable_type = "keyvalue" ->
            create_key_value(variable, value, validate, when_requested)
      [] variable_type = "keyvaluearray" ->
            create_key_value_array(variable, value, validate, when_requested)
      [] variable_type = "string" -> create_string(variable, value, validate, when_requested)
      [] variable_type = "stringarray" ->
            create_string_array(variable, value, validate, when_requested)
      [] variable_type = "tcentity" ->
            create_tc_entity(variable, value, validate, when_requested)
      [] variable_type = "tcentityarray" ->
            create_tc_entity_array(variable, value, validate, when_requested)
      [] variable_type = "tcbatch" ->
            create_tc_batch(variable, value, validate, when_requested)
      [] OTHER -> create_raw(variable, value, validate, when_requested)

create_any(key, value, validate, variable_type, when_requested) ==
    LET nul == _check_null(key, value)
        variable == _get_variable(key, variable_type)
    IN  IF nul.invalid THEN Done(Return(PyNone), nul.log)
        ELSE IF variable = None THEN Done(Return(PyNone), <<>>)
        ELSE IF ~_check_requested(variable, when_requested) THEN Done(Return(PyNone), <<>>)
        ELSE variable_type_map(Lower(get_playbook_variable_type(variable)),
                               variable, value, validate, when_requested)

\* variable() that hands the value to any() with validation off
create_variable_unvalidated(key, value, variable_type) ==
    LET nul == _check_null(key, value)
        variable == _get_variable(key, variable_type)
    IN  IF nul.invalid THEN Done(Return(PyNone), nul.log)
        ELSE IF Len(output_variables) = 0 THEN Done(Return(PyNone), <<>>)
        ELSE IF variable = None THEN Done(Return(PyNone), <<>>)
        ELSE IF ~is_requested(variable) THEN Done(Return(PyNone), <<>>)
        ELSE create_any(variable, value, FALSE, None, TRUE)

create_variable(key, value, variable_type) ==
    LET nul == _check_null(key, value)
        variable == _get_variable(key, variable_type)
    IN  IF nul.invalid THEN Done(Return(PyNone), nul.log)
        ELSE IF Len(output_variables) = 0 THEN Done(Return(PyNone), <<>>)
        ELSE IF variable = None THEN Done(Return(PyNone), <<>>)
        ELSE IF ~is_requested(variable) THEN Done(Return(PyNone), <<>>)
        ELSE create_any(variable, value, TRUE, None, TRUE)

-----------------------------------------------------------------------------
(* PlaybookRead *)

KeyErrorRaised == "KeyError"

\* deepest chain of nested any() calls the interpreter's stack allows
MaxDepth == 4

\* str(value), as chunks: what re.finditer scans in _read_embedded
RECURSIVE PyText(_)
RECURSIVE PyTextItems(_, _)
RECURSIVE PyTextPairs(_, _)
PyRepr(v) == IF IsStr(v) THEN <<"'">> \o TextOf(v) \o <<"'">> ELSE PyText(v)
PyText(v) ==
    CASE IsStr(v) -> TextOf(v)
      [] v.t = "NoneType" -> <<"None">>
      [] v.t = "bool" -> IF v.b THEN <<"True">> ELSE <<"False">>
      [] v.t = "int" -> <<ToString(v.i)>>
      [] v.t = "Sensitive" -> <<"****">>
      [] IsBytes(v) -> <<"b'">> \o [i \in 1..Len(v.y) |-> "\\x" \o ToString(v.y[i])] \o <<"'">>
      [] v.t = "list" -> <<"[">> \o PyTextItems(v.l, 1) \o <<"]">>
      [] v.t \in {"dict", "BaseModel"} -> <<"{">> \o PyTextPairs(v.d, 1) \o <<"}">>
PyTextItems(l, i) ==
    IF i > Len(l) THEN <<>>
    ELSE (IF i > 1 THEN <<", ">> ELSE <<>>) \o PyRepr(l[i]) \o PyTextItems(l, i + 1)
PyTextPairs(d, i) ==
    IF i > Len(d) THEN <<>>
    ELSE (IF i > 1 THEN <<", ">> ELSE <<>>)
         \o <<"'", d[i].k, "'", ": ">> \o PyRepr(d[i].v) \o PyTextPairs(d, i + 1)

IsToken(chunk) == chunk \in Tokens

\* re.finditer(variable_expansion_pattern, text): the tokens, left to right
Matches(text) == SelectSeq(text, IsToken)

\* str.replace(old, new) on chunks: every occurrence, the result not rescanned
RECURSIVE Replace(_, _, _)
Replace(text, old, new) ==
    IF Len(text) = 0 THEN <<>>
    ELSE (IF Head(text) = old THEN new ELSE <<Head(text)>>) \o Replace(Tail(text), old, new)

\* registry.inputs.resolve_variable(variable): the platform's answer for a
\* '&' variable; a KEYCHAIN variable comes back as Sensitive
resolve_variable(variable) ==
    IF variable = KeychainToken THEN Sensitive(<<"s3cr3t">>)
    ELSE PyStr(<<"platform text">>)

\* _check_variable_type that accepts every type tag
read_check_any_type(variable, type_) == Return(PyNone)

read_check_variable_type(variable, type_) ==
    IF Lower(get_playbook_variable_type(variable)) # Lower(type_)
    THEN Raise(WrongType)
    ELSE Return(PyNone)

\* _coerce_string_value that coerces by str(value) whatever the type
read_coerce_by_str(value) == PyStr(PyText(value))

read_coerce_string_value(value) ==
    CASE value.t = "bool" -> PyStr(<<IF value.b THEN "true" ELSE "false">>)
      [] value.t = "int" -> PyStr(<<ToString(value.i)>>)
      [] OTHER -> value

\* bytes.decode(): the model's byte strings decode as UTF-8 only when ASCII
Utf8(y) == \A i \in 1..Len(y) : y[i] < 128
Chars(y) == [i \in 1..Len(y) |-> "\\x" \o ToString(y[i])]

\* utf-8, falling back to latin-1, which decodes any byte string
_decode_binary(data) == PyStr(Chars(data.y))

\* data.decode() in the typed reads: UnicodeDecodeError is a ValueError
Decode(data) ==
    IF ~IsBytes(data) THEN Return(data)
    ELSE IF Utf8(data.y) THEN Return(PyStr(Chars(data.y)))
    ELSE Raise(ValueErrorRaised)

_deserialize_data(value) ==
    LET r == json_loads(value)
    IN  IF r.raised = ValueErrorRaised THEN Raise(JsonLoadFailed) ELSE r

\* body applied to the value of x, with x evaluated once (a local variable)
Bind(x, body(_)) == CHOOSE r \in {body(g) : g \in {x}} : TRUE

\* key_value_store.client.read(context, key.strip())
client_read(key) ==
    IF Strip(key) \in failing
    THEN Done(Raise(StoreFailed),
              << [m |-> "read_failed", context |-> Context, key |-> Strip(key)] >>)
    ELSE Done(Return(IF Stored(store, Context, Strip(key))
                     THEN store[<<Context, Strip(key)>>]
                     ELSE PyNone),
              << [m |-> "read", context |-> Context, key |-> Strip(key)] >>)

\* _get_data that creates an empty entry for a key the store does not hold
_get_data_create_missing(key) ==
    LET caught(r) ==
            IF r.raised # "" THEN Done(Return(PyNone), r.log)
            ELSE IF IsNone(r.v)
            THEN Done(r, r.log \o << [m |-> "create", context |-> Context, key |-> Strip(key),
                                      value |-> PyStr(<<>>)] >>)
            ELSE r
    IN  Bind(client_read(key), caught)

\* a RuntimeError of the client is caught and None returned
_get_data(key) ==
    LET caught(r) == IF r.raised # "" THEN Done(Return(PyNone), r.log) ELSE r
    IN  Bind(client_read(key), caught)

_null_key_check(key) == key = None

\* fetch and parse: the steps every typed read starts with; miss tells a
\* key the store does not hold from a stored JSON null
Fetch(key, type_, decode_bytes) ==
    IF read_check_variable_type(key, type_).raised # ""
    THEN [raised |-> WrongType, v |-> PyNone, log |-> <<>>, miss |-> FALSE]
    ELSE LET parsed(got) ==
                 LET loaded(data) ==
                         [raised |-> data.raised, v |-> data.v, log |-> got.log,
                          miss |-> FALSE]
                     decoded(text) ==
                         IF text.raised # "" THEN loaded(text)
                         ELSE Bind(_deserialize_data(text.v), loaded)
                 IN  IF IsNone(got.v)
                     THEN [raised |-> "", v |-> PyNone, log |-> got.log, miss |-> TRUE]
                     ELSE Bind(IF decode_bytes THEN Decode(got.v) ELSE Return(got.v),
                               decoded)
         IN  Bind(_get_data(key), parsed)

\* DecodeItem without its base64 step: the stored text is handed back
DecodeItemSkipped(d, b64decode, decode) == Return(d)

\* base64 decode of one item of a Binary or BinaryArray read
DecodeItem(d, b64decode, decode) ==
    IF b64decode /\ IsStr(d)
    THEN LET b == base64_b64decode(d)
         IN  IF b.raised # "" THEN b
             ELSE IF decode THEN Return(_decode_binary(b.v))
             ELSE Return(BinaryVariable(b.v.y))
    ELSE Return(d)

read_binary(key, b64decode, decode) ==
    LET fetched(data) ==
            IF data.raised # "" \/ data.miss THEN Done(data, data.log)
            ELSE Done(DecodeItem(data.v, b64decode, decode), data.log)
    IN  IF _null_key_check(key) THEN Done(Return(PyNone), <<>>)
        ELSE Bind(Fetch(key, "Binary", FALSE), fetched)

read_binary_array(key, b64decode, decode) ==
    LET fetched(data) ==
            LET step(i) == DecodeItem(Items(data.v)[i], b64decode, decode)
            IN  IF data.raised # "" \/ data.miss THEN Done(data, data.log)
                ELSE IF ~IsIterable(data.v) THEN Done(Raise(TypeErrorRaised), data.log)
                ELSE Done(Loop(Len(Items(data.v)), step), data.log)
    IN  IF _null_key_check(key) THEN Done(Return(PyNone), <<>>)
        ELSE Bind(Fetch(key, "BinaryArray", TRUE), fetched)

read_raw(key) ==
    IF _null_key_check(key) THEN Done(Return(PyNone), <<>>)
    ELSE client_read(key)

\* StringVariable(value), BinaryVariable(value): the handles any() wraps in
\* the StringVariable wrapping without the test for None
WrapStringAlways(v) == Return(StringVariable(PyText(v)))

WrapString(v) ==
    IF IsNone(v) THEN Return(v)
    ELSE Return(StringVariable(PyText(v)))
WrapBinary(v) ==
    IF IsNone(v) THEN Return(v)
    ELSE IF IsBytes(v) THEN Return(BinaryVariable(v.y))
    ELSE IF v.t = "int" THEN Return(BinaryVariable([i \in 1..v.i |-> 0]))
    ELSE Raise(TypeErrorRaised)

read_string_array(key) ==
    LET fetched(data) ==
            LET step(i) == WrapString(read_coerce_string_value(Items(data.v)[i]))
            IN  IF data.raised # "" \/ data.miss THEN Done(data, data.log)
                ELSE IF ~IsIterable(data.v) THEN Done(Raise(TypeErrorRaised), data.log)
                ELSE Done(Loop(Len(Items(data.v)), step), data.log)
    IN  IF _null_key_check(key) THEN Done(Return(PyNone), <<>>)
        ELSE Bind(Fetch(key, "StringArray", TRUE), fetched)

read_tc_batch(key) ==
    LET fetched(data) == Done(data, data.log)
    IN  IF _null_key_check(key) THEN Done(Return(PyNone), <<>>)
        ELSE Bind(Fetch(key, "TCBatch", TRUE), fetched)

read_tc_entity(key) ==
    LET fetched(data) == Done(data, data.log)
    IN  IF _null_key_check(key) THEN Done(Return(PyNone), <<>>)
        ELSE Bind(Fetch(key, "TCEntity", TRUE), fetched)

read_tc_entity_array(key) ==
    LET fetched(data) == Done(data, data.log)
    IN  IF _null_key_check(key) THEN Done(Return(PyNone), <<>>)
        ELSE Bind(Fetch(key, "TCEntityArray", TRUE), fetched)

\* data[k] = v on a dict
SetItem(data, k, v) ==
    PyDict([i \in 1..Len(data.d) |-> IF data.d[i].k = k THEN [k |-> k, v |-> v] ELSE data.d[i]])

RECURSIVE read_any(_, _)
RECURSIVE read_string(_, _, _)
RECURSIVE read_key_value(_, _, _)
RECURSIVE read_key_value_array(_, _, _)
RECURSIVE _process_key_value(_, _, _)
RECURSIVE _read_embedded(_, _)
RECURSIVE EmbedLoop(_, _, _, _, _)
RECURSIVE KeyValueLoop(_, _, _, _, _, _)

\* one iteration per match of the for loop of _read_embedded, value_ and the
\* store calls so far carried along
EmbedLoop(matches, i, value_, log, depth) ==
    IF i > Len(matches) THEN Done(Return(value_), log)
    ELSE
      LET variable == matches[i]
          iteration(got) ==
            LET v1 == IF /\ variable \in PbTokens
                         /\ get_playbook_variable_type(variable) \in {"Binary", "BinaryArray"}
                      THEN PyStr(<<"<binary>">>)
                      ELSE got.v
                v2 == IF IsDict(v1) \/ IsList(v1) THEN json_dumps(v1)
                      ELSE IF IsNone(v1) THEN Return(PyStr(<<"<null>">>))
                      ELSE Return(v1)
                v == v2.v
                next == IF IsSensitive(v) /\ IsStr(value_) /\ TextOf(value_) = <<variable>>
                        THEN v
                        ELSE IF IsStr(value_) /\ IsSensitive(v)
                        THEN PyStr(Replace(TextOf(value_), variable, v.s))
                        ELSE IF IsStr(value_) /\ IsStr(v)
                        THEN PyStr(Replace(TextOf(value_), variable, TextOf(v)))
                        ELSE value_
            IN  IF got.raised # "" THEN Done(got, log \o got.log)
                ELSE IF v2.raised # "" THEN Done(v2, log \o got.log)
                ELSE EmbedLoop(matches, i + 1, next, log \o got.log, depth)
      IN  Bind(IF variable \in PbTokens THEN read_any(variable, depth)
               ELSE Done(Return(resolve_variable(variable)), <<>>),
               iteration)

_read_embedded(value, depth) ==
    IF IsNone(value) THEN Done(Return(value), <<>>)
    ELSE EmbedLoop(Matches(PyText(value)), 1, value, <<>>, depth)

\* _process_key_value without the test for a value that is one variable:
\* every value goes through _read_embedded
_process_key_value_embedded_only(data, resolve_embedded, depth) ==
    IF ~resolve_embedded THEN Done(Return(data), <<>>)
    ELSE IF ~IsDict(data) THEN Done(Raise(TypeErrorRaised), <<>>)
    ELSE IF ~HasKey(data, "value") THEN Done(Raise(KeyErrorRaised), <<>>)
    ELSE LET r == _read_embedded(Get(data, "value"), depth)
         IN  IF r.raised # "" THEN r
             ELSE Done(Return(SetItem(data, "value", r.v)), r.log)

_process_key_value(data, resolve_embedded, depth) ==
    IF ~resolve_embedded THEN Done(Return(data), <<>>)
    ELSE IF ~IsDict(data) THEN Done(Raise(TypeErrorRaised), <<>>)
    ELSE IF ~HasKey(data, "value") THEN Done(Raise(KeyErrorRaised), <<>>)
    ELSE LET value == Get(data, "value")
             assign(r) == IF r.raised # "" THEN r
                          ELSE Done(Return(SetItem(data, "value", r.v)), r.log)
         IN  Bind(IF IsVariableValue(value) THEN read_any(value.s[1], depth)
                  ELSE _read_embedded(value, depth),
                  assign)

read_key_value(key, resolve_embedded, depth) ==
    LET fetched(data) ==
            LET result(r) == Done(r, data.log \o r.log)
            IN  IF data.raised # "" \/ data.miss THEN Done(data, data.log)
                ELSE Bind(_process_key_value(data.v, resolve_embedded, depth), result)
    IN  IF _null_key_check(key) THEN Done(Return(PyNone), <<>>)
        ELSE Bind(Fetch(key, "KeyValue", FALSE), fetched)

\* the for loop of key_value_array over the items from the i-th on
KeyValueLoop(items, i, values, log, resolve_embedded, depth) ==
    IF i > Len(items) THEN Done(Return(PyList(values)), log)
    ELSE LET iteration(r) ==
                 IF r.raised # "" THEN Done(r, log \o r.log)
                 ELSE KeyValueLoop(items, i + 1, Append(values, r.v), log \o r.log,
                                   resolve_embedded, depth)
         IN  Bind(_process_key_value(items[i], resolve_embedded, depth), iteration)

read_key_value_array(key, resolve_embedded, depth) ==
    LET fetched(data) ==
            IF data.raised # "" \/ data.miss THEN Done(data, data.log)
            ELSE IF ~IsIterable(data.v) THEN Done(Raise(TypeErrorRaised), data.log)
            ELSE KeyValueLoop(Items(data.v), 1, <<>>, data.log, resolve_embedded, depth)
    IN  IF _null_key_check(key) THEN Done(Return(PyNone), <<>>)
        ELSE Bind(Fetch(key, "KeyValueArray", TRUE), fetched)

read_string(key, resolve_embedded, depth) ==
    LET fetched(data) ==
            LET result(r) ==
                    IF r.raised # "" THEN Done(r, data.log \o r.log)
                    ELSE Done(Return(read_coerce_string_value(r.v)), data.log \o r.log)
            IN  IF data.raised # "" \/ data.miss THEN Done(data, data.log)
                ELSE Bind(IF resolve_embedded /\ ~IsVariableValue(data.v)
                          THEN _read_embedded(data.v, depth)
                          ELSE Done(Return(data.v), <<>>),
                          result)
    IN  IF _null_key_check(key) THEN Done(Return(PyNone), <<>>)
        ELSE Bind(Fetch(key, "String", TRUE), fetched)

\* the handle any() wraps each item of an array result in
WrapItems(value, wrap(_)) ==
    IF ~IsIterable(value) THEN Raise(TypeErrorRaised)
    ELSE LET step(i) == wrap(Items(value)[i])
         IN  Loop(Len(Items(value)), step)

read_any(key, depth) ==
    LET key_ == Strip(key)
        variable_type == Lower(get_playbook_variable_type(key_))
        wrapped(value) ==
            IF IsNone(value.v) THEN Return(value.v)
            ELSE CASE variable_type = "binary" -> WrapBinary(value.v)
                   [] variable_type = "binaryarray" -> WrapItems(value.v, WrapBinary)
                   [] variable_type = "string" -> WrapString(value.v)
                   [] variable_type = "stringarray" -> WrapItems(value.v, WrapString)
                   [] OTHER -> Return(value.v)
        result(value) ==
            IF value.raised # "" THEN value ELSE Done(wrapped(value), value.log)
    IN  IF _null_key_check(key) THEN Done(Return(PyNone), <<>>)
        ELSE IF depth = 0 THEN Done(Raise(RecursionErrorRaised), <<>>)
        ELSE Bind(CASE variable_type = "binary" -> read_binary(key_, TRUE, FALSE)
                    [] variable_type = "binaryarray" -> read_binary_array(key_, TRUE, FALSE)
                    [] variable_type = "keyvalue" -> read_key_value(key_, TRUE, depth - 1)
                    [] variable_type = "keyvaluearray" ->
                          read_key_value_array(key_, TRUE, depth - 1)
                    [] variable_type = "string" -> read_string(key_, TRUE, depth - 1)
                    [] variable_type = "stringarray" -> read_string_array(key_)
                    [] variable_type = "tcbatch" -> read_tc_batch(key_)
                    [] variable_type = "tcentity" -> read_tc_entity(key_)
                    [] variable_type = "tcentityarray" -> read_tc_entity_array(key_)
                    [] OTHER -> read_raw(key_),
                  result)

\* A text is a sequence of chunks; in the free-form input of variable() a
\* backslash is the chunk "\\" and the letter after it a chunk of its own, and
\* no other chunk holds a backslash or follows one with an s.

\* re.sub(r'(?<!\\)\\s', ' ', string): the matches from the i-th chunk on
RECURSIVE SubSpace(_, _)
SubSpace(string, i) ==
    IF i > Len(string) THEN <<>>
    ELSE IF /\ string[i] = "\\" /\ i < Len(string) /\ string[i + 1] = "s"
            /\ (i = 1 \/ string[i - 1] # "\\")
    THEN <<" ">> \o SubSpace(string, i + 2)
    ELSE <<string[i]>> \o SubSpace(string, i + 1)

\* re.sub(r'\\\\s', r'\\s', string): the matches from the i-th chunk on
RECURSIVE SubEscaped(_, _)
SubEscaped(string, i) ==
    IF i > Len(string) THEN <<>>
    ELSE IF /\ string[i] = "\\" /\ i + 1 < Len(string) /\ string[i + 1] = "\\"
            /\ string[i + 2] = "s"
    THEN <<"\\", "s">> \o SubEscaped(string, i + 3)
    ELSE <<string[i]>> \o SubEscaped(string, i + 1)

\* the first substitution without its lookbehind
RECURSIVE SubSpaceAnywhere(_, _)
SubSpaceAnywhere(string, i) ==
    IF i > Len(string) THEN <<>>
    ELSE IF string[i] = "\\" /\ i < Len(string) /\ string[i + 1] = "s"
    THEN <<" ">> \o SubSpaceAnywhere(string, i + 2)
    ELSE <<string[i]>> \o SubSpaceAnywhere(string, i + 1)

\* _process_space_patterns whose first pattern has no lookbehind
_process_space_patterns_no_lookbehind(string) ==
    SubEscaped(SubSpaceAnywhere(string, 1), 1)

_process_space_patterns(string) == SubEscaped(SubSpace(string, 1), 1)

_to_array(value) ==
    IF IsNone(value) THEN PyList(<<>>)
    ELSE IF ~IsList(value) THEN PyList(<<value>>)
    ELSE value

\* key is None or a str; a str that is one variable is known by its text
read_variable(key, array) ==
    LET result(r) ==
            IF r.raised # "" \/ ~array THEN r
            ELSE IF IsList(r.v) \/ IsStr(r.v) THEN Done(Return(_to_array(r.v)), r.log)
            ELSE IF IsNone(r.v) THEN Done(Return(PyList(<<>>)), r.log)
            ELSE r
    IN  Bind(IF IsNone(key) THEN Done(Return(key), <<>>)
             ELSE IF Len(key.s) = 1 /\ is_playbook_variable(Strip(key.s[1]))
             THEN read_any(Strip(key.s[1]), MaxDepth)
             ELSE _read_embedded(PyStr(_process_space_patterns(key.s)), MaxDepth),
             result)

-----------------------------------------------------------------------------
(* The values, keys and stores the calls are made with *)

X == "#App:1:x!String"
Y == "#App:1:y!String"
Z == "#App:1:z!String"
XBinary == "#App:1:x!Binary"

Pair(k, v) == [k |-> k, v |-> v]
KeyValue(k, v) == PyDict(<<Pair("key", PyStr(<<k>>)), Pair("value", v)>>)
Entity(id) ==
    PyDict(<<Pair("id", PyInt(id)), Pair("value", PyStr(<<"1.1.1.1">>)),
             Pair("type", PyStr(<<"Address">>))>>)

Bytes1 == PyBytes(<<0, 1, 255>>)
Bytes2 == PyBytes(<<104, 105>>)
StrA == PyStr(<<"a">>)
StrB == PyStr(<<"b">>)
Embedded == PyStr(<<"hello ", X, " world">>)
OneToken == PyStr(<<Y>>)
KvPlain == KeyValue("k", PyStr(<<"v">>))
KvToken == KeyValue("k", PyStr(<<X>>))
KvEmbedded == KeyValue("k", Embedded)
KvNoValue == PyDict(<<Pair("key", PyStr(<<"k">>))>>)
Batch == PyDict(<<Pair("indicator", PyList(<<>>)), Pair("group", PyList(<<>>))>>)
BadBatch == PyDict(<<Pair("indicator", StrA)>>)

StringValues ==
    {PyNone, StrA, Embedded, OneToken, PyStr(<<KeychainToken>>), PyBool(TRUE), PyInt(5),
     Bytes1}
StringArrayValues ==
    {PyNone, PyList(<<StrA, PyNone, StrB>>), PyList(<<PyBool(FALSE), PyInt(5), Embedded>>),
     PyList(<<StrA, Bytes1>>), StrA, PyInt(5)}
BinaryValues == {PyNone, Bytes1, Bytes2, PyBytes(<<7>>), StrA}
BinaryArrayValues ==
    {PyNone, PyList(<<Bytes1, PyNone, Bytes2>>), PyList(<<Bytes1, StrA>>), Bytes1, PyInt(5)}
KeyValueValues ==
    {PyNone, KvPlain, KvToken, KvEmbedded, KeyValue("k", PyNone), KvNoValue,
     BaseModel(KvPlain.d), StrA}
KeyValueArrayValues ==
    {PyNone, PyList(<<KvPlain, KvEmbedded>>), PyList(<<KvPlain, PyNone>>),
     PyList(<<KvPlain, KvNoValue>>), PyList(<<StrA>>), KvPlain, PyInt(5)}
TCEntityValues == {PyNone, Entity(1), KvPlain, StrA}
TCEntityArrayValues ==
    {PyNone, PyList(<<Entity(1), Entity(2)>>), PyList(<<Entity(1), PyNone>>),
     PyList(<<Entity(1), KvPlain>>), PyInt(5)}
TCBatchValues == {PyNone, Batch, BadBatch, StrA}
RawValues == {PyNone, PyStr(<<"raw text">>), Bytes1}
AnyValues ==
    {PyNone, StrA, Bytes1, PyList(<<StrA, PyNone, StrB>>), KvPlain,
     PyList(<<KvPlain, PyNone>>), Entity(1), PyList(<<Entity(1), Entity(2)>>), Batch}

\* the variable of each wire type, and the keys a typed write is called with:
\* its own variable, a variable of another type, bare keys, a padded key, None
TypeVariable(type) == (CHOOSE m \in PlaybookVariables : m.type = type /\ m.key # "y"
                                                        /\ m.key # "z").text
KeysFor(type) ==
    {TypeVariable(type), IF type = "String" THEN XBinary ELSE X,
     get_playbook_variable_model(TypeVariable(type)).key, "nokey", None}
    \cup (IF type = "String" THEN {PaddedKey, "#App:1:u!string", "u", Y} ELSE {})
AnyKeys == PbTokens \cup {"x", "kva", "nokey", PaddedKey, None}

\* keys of the read operations: well-formed variables, padded or not, or None
ReadKeys == PbTokens \cup {PaddedKey, None}

\* free-form input of the read variable() operation
VariableTexts ==
    {PyNone, PyStr(<<X>>), PyStr(<<PaddedKey>>), PyStr(<<"#App:1:sa!StringArray">>),
     Embedded, PyStr(<<"a", "\\", "s", "b", "\\", "\\", "s", Y>>), PyStr(<<KeychainToken>>),
     PyStr(<<"no variable">>)}

\* free-form input without variables: every text of backslashes and letters
\* up to a length
MaxEscapeLen == 4
EscapeChars == {"\\", "s", "a"}
EscapeTexts == {PyStr(t) : t \in UNION {[1..n -> EscapeChars] : n \in 1..MaxEscapeLen}}

\* what an upstream App's typed write leaves in the store for a value
Json(v) == JsonText(ToJson(v))

Entry(context, key, value) == [p \in {<<context, key>>} |-> value]

\* a store another session wrote to
OtherSession == Entry(OtherContext, X, Json(PyStr(<<"other">>)))

StoreEmpty == OtherSession
\* two levels of embedding: z embeds y, y embeds x
StoreNested ==
    OtherSession @@ Entry(Context, X, Json(PyStr(<<"there">>)))
                 @@ Entry(Context, Y, Json(Embedded))
                 @@ Entry(Context, Z, Json(PyStr(<<"see ", Y>>)))
\* x holds exactly the variable y; z embeds x and y
StoreTokens ==
    OtherSession @@ Entry(Context, X, Json(OneToken))
                 @@ Entry(Context, Y, Json(StrB))
                 @@ Entry(Context, Z, Json(PyStr(<<X, " ", Y>>)))
\* x embeds itself; y and z embed each other
StoreCycle ==
    OtherSession @@ Entry(Context, X, Json(PyStr(<<"me ", X>>)))
                 @@ Entry(Context, Y, Json(PyStr(<<"y ", Z>>)))
                 @@ Entry(Context, Z, Json(PyStr(<<"z ", Y>>)))
\* platform variables, confidential and plain
StoreSensitive ==
    OtherSession @@ Entry(Context, X, Json(PyStr(<<KeychainToken>>)))
                 @@ Entry(Context, Y, Json(PyStr(<<"pw ", KeychainToken>>)))
                 @@ Entry(Context, Z, Json(PyStr(<<TextToken, X>>)))
\* every wire type, and a string that embeds the other types
StoreTypes ==
    OtherSession @@ Entry(Context, X, Json(PyStr(<<"there">>)))
                 @@ Entry(Context, XBinary, Json(PyStr(base64_b64encode(Bytes1.y))))
                 @@ Entry(Context, "#App:1:ba!BinaryArray",
                          Json(PyList(<<PyStr(base64_b64encode(Bytes2.y)), PyNone>>)))
                 @@ Entry(Context, "#App:1:sa!StringArray",
                          Json(PyList(<<StrA, PyNone, StrB>>)))
                 @@ Entry(Context, "#App:1:kv!KeyValue", Json(KvToken))
                 @@ Entry(Context, "#App:1:kva!KeyValueArray",
                          Json(PyList(<<KvEmbedded, KvPlain, KeyValue("k", OneToken)>>)))
                 @@ Entry(Context, "#App:1:e!TCEntity", Json(Entity(1)))
                 @@ Entry(Context, "#App:1:ea!TCEntityArray", Json(PyList(<<Entity(1)>>)))
                 @@ Entry(Context, "#App:1:t!TCBatch", Json(Batch))
                 @@ Entry(Context, "#App:1:c!Custom", PyStr(<<"raw text">>))
                 @@ Entry(Context, Z,
                          Json(PyStr(<<XBinary, " ", "#App:1:sa!StringArray", " ", Y, " ",
                                       "#App:1:kv!KeyValue">>)))

\* a Binary variable whose stored text is not base64, and a StringArray that
\* holds the text of its own variable; x and y embed them
StoreBadBinary ==
    OtherSession @@ Entry(Context, XBinary, Json(StrA))
                 @@ Entry(Context, "#App:1:sa!StringArray",
                          Json(PyList(<<PyStr(<<"#App:1:sa!StringArray">>)>>)))
                 @@ Entry(Context, X, Json(PyStr(<<"pic ", XBinary>>)))
                 @@ Entry(Context, Y, Json(PyStr(<<"list ", "#App:1:sa!StringArray">>)))

UpstreamStores ==
    {StoreNested, StoreTokens, StoreCycle, StoreSensitive, StoreTypes, StoreBadBinary}

\* requested output variables; the bare key x is requested with two types
OutputsAll ==
    << XBinary, X, "#App:1:ba!BinaryArray", "#App:1:sa!StringArray", "#App:1:kv!KeyValue",
       "#App:1:kva!KeyValueArray", "#App:1:e!TCEntity", "#App:1:ea!TCEntityArray",
       "#App:1:t!TCBatch", "#App:1:u!string", "#App:1:c!Custom" >>
OutputsFew == << X, "#App:1:kva!KeyValueArray" >>
OutputsNone == << >>

NoCall ==
    [op |-> "", key |-> None, value |-> PyNone, validate |-> TRUE, when_requested |-> TRUE,
     variable_type |-> None, b64decode |-> TRUE, decode |-> FALSE,
     resolve_embedded |-> TRUE, array |-> FALSE]
NoOutcome == Return(PyNone)

-----------------------------------------------------------------------------
(* The state machine: an App makes one write call, or one read call, or    *)
(* reads back the variable it has just written.                            *)

Init ==
    /\ \/ /\ store = StoreEmpty
          /\ output_variables \in {OutputsAll, OutputsFew, OutputsNone}
          /\ write_null_env \in BOOLEAN
          /\ client_kind \in {KeyValueRedis, KeyValueApi}
       \/ /\ store \in UpstreamStores
          /\ output_variables = OutputsAll
          /\ write_null_env = FALSE
          /\ client_kind = KeyValueRedis
    /\ pc = "idle"
    /\ wcall = NoCall /\ wret = NoOutcome /\ wlog = <<>>
    /\ rcall = NoCall /\ rret = NoOutcome /\ rlog = <<>>
    /\ failing = {}
    /\ soft_failed = FALSE

\* client.create raised
CreateFailed(log) == \E i \in 1..Len(log) : log[i].m = "create_failed"

Created(log) == \E i \in 1..Len(log) : log[i].m = "create"

\* a write call returns: the store holds what the client was told to store
Wrote(call, outcome) ==
    /\ pc = "idle"
    /\ \E out \in {outcome} :
         /\ wcall' = call
         /\ wret' = [raised |-> out.raised, v |-> out.v]
         /\ wlog' = out.log
         /\ store' = ApplyLog(store, out.log)
         /\ pc' = IF CreateFailed(out.log) THEN "failed"
                  ELSE IF Created(out.log) THEN "written" ELSE "returned"
    /\ UNCHANGED <<output_variables, write_null_env, client_kind, rcall, rret, rlog,
                   failing, soft_failed>>

WriteCall(op, key, value, validate, when_requested) ==
    [NoCall EXCEPT !.op = op, !.key = key, !.value = value, !.validate = validate,
                   !.when_requested = when_requested]

CreateBinary ==
    /\ pc = "idle"
    /\ \E key \in KeysFor("Binary"), value \in BinaryValues, validate, when_requested \in BOOLEAN :
           Wrote(WriteCall("binary", key, value, validate, when_requested),
                 create_binary(key, value, validate, when_requested))

CreateBinaryArray ==
    /\ pc = "idle"
    /\ \E key \in KeysFor("BinaryArray"), value \in BinaryArrayValues,
          validate, when_requested \in BOOLEAN :
           Wrote(WriteCall("binary_array", key, value, validate, when_requested),
                 create_binary_array(key, value, validate, when_requested))

CreateKeyValue ==
    /\ pc = "idle"
    /\ \E key \in KeysFor("KeyValue"), value \in KeyValueValues,
          validate, when_requested \in BOOLEAN :
           Wrote(WriteCall("key_value", key, value, validate, when_requested),
                 create_key_value(key, value, validate, when_requested))

CreateKeyValueArray ==
    /\ pc = "idle"
    /\ \E key \in KeysFor("KeyValueArray"), value \in KeyValueArrayValues,
          validate, when_requested \in BOOLEAN :
           Wrote(WriteCall("key_value_array", key, value, validate, when_requested),
                 create_key_value_array(key, value, validate, when_requested))

CreateString ==
    /\ pc = "idle"
    /\ \E key \in KeysFor("String"), value \in StringValues, validate, when_requested \in BOOLEAN :
           Wrote(WriteCall("string", key, value, validate, when_requested),
                 create_string(key, value, validate, when_requested))

CreateStringArray ==
    /\ pc = "idle"
    /\ \E key \in KeysFor("StringArray"), value \in StringArrayValues,
          validate, when_requested \in BOOLEAN :
           Wrote(WriteCall("string_array", key, value, validate, when_requested),
                 create_string_array(key, value, validate, when_requested))

CreateRaw ==
    /\ pc = "idle"
    /\ \E key \in {X, PaddedKey, "#App:1:c!Custom", "nokey"}, value \in RawValues :
           Wrote(WriteCall("raw", key, value, TRUE, TRUE),
                 create_raw(key, value, TRUE, TRUE))

CreateTcBatch ==
    /\ pc = "idle"
    /\ \E key \in KeysFor("TCBatch"), value \in TCBatchValues, validate, when_requested \in BOOLEAN :
           Wrote(WriteCall("tc_batch", key, value, validate, when_requested),
                 create_tc_batch(key, value, validate, when_requested))

CreateTcEntity ==
    /\ pc = "idle"
    /\ \E key \in KeysFor("TCEntity"), value \in TCEntityValues,
          validate, when_requested \in BOOLEAN :
           Wrote(WriteCall("tc_entity", key, value, validate, when_requested),
                 create_tc_entity(key, value, validate, when_requested))

CreateTcEntityArray ==
    /\ pc = "idle"
    /\ \E key \in KeysFor("TCEntityArray"), value \in TCEntityArrayValues,
          validate, when_requested \in BOOLEAN :
           Wrote(WriteCall("tc_entity_array", key, value, validate, when_requested),
                 create_tc_entity_array(key, value, validate, when_requested))

CreateAny ==
    /\ pc = "idle"
    /\ \E key \in AnyKeys, value \in AnyValues, validate, when_requested \in BOOLEAN,
          variable_type \in {None, "String"} :
           Wrote([WriteCall("any", key, value, validate, when_requested)
                     EXCEPT !.variable_type = variable_type],
                 create_any(key, value, validate, variable_type, when_requested))

CreateVariable ==
    /\ pc = "idle"
    /\ \E key \in AnyKeys, value \in AnyValues, variable_type \in {None, "String"} :
           Wrote([WriteCall("variable", key, value, TRUE, TRUE)
                     EXCEPT !.variable_type = variable_type],
                 create_variable(key, value, variable_type))

\* the key the write call created
WrittenKey == wlog[CHOOSE i \in 1..Len(wlog) : wlog[i].m = "create"].key

\* a read call returns; an App that has just written reads that variable
\* back with the operation of its type, with any(), raw() or variable()
Read(call, type_, outcome) ==
    /\ \/ pc = "idle"
       \/ /\ pc = "written"
          /\ Strip(call.key) = WrittenKey
          /\ type_ \in {"", Lower(get_playbook_variable_type(WrittenKey))}
    /\ \E out \in {outcome} :
         /\ rcall' = call
         /\ rret' = [raised |-> out.raised, v |-> out.v]
         /\ rlog' = out.log
         /\ store' = ApplyLog(store, out.log)
    /\ pc' = "read"
    /\ UNCHANGED <<output_variables, write_null_env, client_kind, wcall, wret, wlog,
                   failing, soft_failed>>

ReadCall(op, key) == [NoCall EXCEPT !.op = op, !.key = key]

ReadBinary ==
    /\ pc \in {"idle", "written"}
    /\ \E key \in ReadKeys, b64decode, decode \in BOOLEAN :
           Read([ReadCall("binary", key) EXCEPT !.b64decode = b64decode, !.decode = decode],
                "binary", read_binary(key, b64decode, decode))

ReadBinaryArray ==
    /\ pc \in {"idle", "written"}
    /\ \E key \in ReadKeys, b64decode, decode \in BOOLEAN :
           Read([ReadCall("binary_array", key) EXCEPT !.b64decode = b64decode, !.decode = decode],
                "binaryarray", read_binary_array(key, b64decode, decode))

ReadKeyValue ==
    /\ pc \in {"idle", "written"}
    /\ \E key \in ReadKeys, resolve_embedded \in BOOLEAN :
           Read([ReadCall("key_value", key) EXCEPT !.resolve_embedded = resolve_embedded],
                "keyvalue", read_key_value(key, resolve_embedded, MaxDepth))

ReadKeyValueArray ==
    /\ pc \in {"idle", "written"}
    /\ \E key \in ReadKeys, resolve_embedded \in BOOLEAN :
           Read([ReadCall("key_value_array", key) EXCEPT !.resolve_embedded = resolve_embedded],
                "keyvaluearray", read_key_value_array(key, resolve_embedded, MaxDepth))

ReadRaw ==
    /\ pc \in {"idle", "written"}
    /\ \E key \in ReadKeys : Read(ReadCall("raw", key), "", read_raw(key))

ReadString ==
    /\ pc \in {"idle", "written"}
    /\ \E key \in ReadKeys, resolve_embedded \in BOOLEAN :
           Read([ReadCall("string", key) EXCEPT !.resolve_embedded = resolve_embedded],
                "string", read_string(key, resolve_embedded, MaxDepth))

ReadStringArray ==
    /\ pc \in {"idle", "written"}
    /\ \E key \in ReadKeys :
           Read(ReadCall("string_array", key), "stringarray", read_string_array(key))

ReadTcBatch ==
    /\ pc \in {"idle", "written"}
    /\ \E key \in ReadKeys : Read(ReadCall("tc_batch", key), "tcbatch", read_tc_batch(key))

ReadTcEntity ==
    /\ pc \in {"idle", "written"}
    /\ \E key \in ReadKeys : Read(ReadCall("tc_entity", key), "tcentity", read_tc_entity(key))

ReadTcEntityArray ==
    /\ pc \in {"idle", "written"}
    /\ \E key \in ReadKeys :
           Read(ReadCall("tc_entity_array", key), "tcentityarray", read_tc_entity_array(key))

ReadAny ==
    /\ pc \in {"idle", "written"}
    /\ \E key \in ReadKeys : Read(ReadCall("any", key), "", read_any(key, MaxDepth))

ReadVariable ==
    /\ pc \in {"idle", "written"}
    /\ \E key \in VariableTexts \cup EscapeTexts, array \in BOOLEAN :
           Read([ReadCall("variable", IF IsNone(key) \/ Len(key.s) # 1 THEN None ELSE key.s[1])
                    EXCEPT !.value = key, !.array = array],
                "", read_variable(key, array))

NextWrite ==
    \/ CreateBinary \/ CreateBinaryArray \/ CreateKeyValue \/ CreateKeyValueArray
    \/ CreateString \/ CreateStringArray \/ CreateRaw \/ CreateTcBatch \/ CreateTcEntity
    \/ CreateTcEntityArray \/ CreateAny \/ CreateVariable

NextRead ==
    \/ ReadBinary \/ ReadBinaryArray \/ ReadKeyValue \/ ReadKeyValueArray \/ ReadRaw
    \/ ReadString \/ ReadStringArray \/ ReadTcBatch \/ ReadTcEntity \/ ReadTcEntityArray
    \/ ReadAny \/ ReadVariable

Next == NextWrite \/ NextRead

\* the App goes on to its next call after a write that returned None because
\* the create failed
Resume ==
    /\ pc = "failed"
    /\ pc' = "idle"
    /\ soft_failed' = TRUE
    /\ wcall' = NoCall /\ wret' = NoOutcome /\ wlog' = <<>>
    /\ UNCHANGED <<store, output_variables, write_null_env, client_kind, rcall, rret, rlog,
                   failing>>

NextFault == Next \/ Resume

\* the store client fails: for one key of a new session, or for every key of
\* a session upstream Apps wrote to
InitFault ==
    /\ \/ store = StoreEmpty /\ failing = {X}
       \/ store = StoreTypes /\ failing = PbTokens
    /\ output_variables = OutputsAll
    /\ write_null_env = FALSE
    /\ client_kind = KeyValueRedis
    /\ pc = "idle"
    /\ wcall = NoCall /\ wret = NoOutcome /\ wlog = <<>>
    /\ rcall = NoCall /\ rret = NoOutcome /\ rlog = <<>>
    /\ soft_failed = FALSE
SpecFault == InitFault /\ [][NextFault]_vars

\* one write call, one read call, or a write and the read of what it wrote
Spec == Init /\ [][Next]_vars
\* the same, for an App whose client is the Redis one and whose environment
\* does not set TC_PLAYBOOK_WRITE_NULL
InitRoundTrip ==
    /\ Init
    /\ store \in {StoreEmpty, StoreTypes}
    /\ ~write_null_env
    /\ client_kind = KeyValueRedis
SpecRoundTrip == InitRoundTrip /\ [][Next]_vars
\* the App only writes
SpecWrite == Init /\ [][NextWrite]_vars
\* the App only reads what upstream Apps wrote
SpecRead == Init /\ [][NextRead]_vars

\* the read method of a call, on the arguments of the call
ReadOutcome(call) ==
    CASE call.op = "binary" -> read_binary(call.key, call.b64decode, call.decode)
      [] call.op = "binary_array" -> read_binary_array(call.key, call.b64decode, call.decode)
      [] call.op = "key_value" -> read_key_value(call.key, call.resolve_embedded, MaxDepth)
      [] call.op = "key_value_array" ->
            read_key_value_array(call.key, call.resolve_embedded, MaxDepth)
      [] call.op = "raw" -> read_raw(call.key)
      [] call.op = "string" -> read_string(call.key, call.resolve_embedded, MaxDepth)
      [] call.op = "string_array" -> read_string_array(call.key)
      [] call.op = "tc_batch" -> read_tc_batch(call.key)
      [] call.op = "tc_entity" -> read_tc_entity(call.key)
      [] call.op = "tc_entity_array" -> read_tc_entity_array(call.key)
      [] call.op = "any" -> read_any(call.key, MaxDepth)
      [] call.op = "variable" -> read_variable(call.value, call.array)

\* the App makes the read call it has just made once more
Reread ==
    /\ pc = "read"
    /\ \E out \in {ReadOutcome(rcall)} :
         /\ rret' = [raised |-> out.raised, v |-> out.v]
         /\ rlog' = out.log
         /\ store' = ApplyLog(store, out.log)
    /\ pc' = "reread"
    /\ UNCHANGED <<output_variables, write_null_env, client_kind, wcall, wret, wlog,
                   rcall, failing, soft_failed>>

\* the App reads what upstream Apps wrote, each variable twice
SpecReread == Init /\ [][NextRead \/ Reread]_vars

-----------------------------------------------------------------------------
(* Properties *)

TypedWriteOps ==
    {"binary", "binary_array", "key_value", "key_value_array", "string", "string_array",
     "tc_batch", "tc_entity", "tc_entity_array"}
TypedReadOps == TypedWriteOps

\* the wire type a typed operation works on
OpType(op) ==
    CASE op = "binary" -> "Binary"
      [] op = "binary_array" -> "BinaryArray"
      [] op = "key_value" -> "KeyValue"
      [] op = "key_value_array" -> "KeyValueArray"
      [] op = "string" -> "String"
      [] op = "string_array" -> "StringArray"
      [] op = "tc_batch" -> "TCBatch"
      [] op = "tc_entity" -> "TCEntity"
      [] op = "tc_entity_array" -> "TCEntityArray"
      [] OTHER -> None

\* the variable the write call resolved its key to
WriteVariable ==
    _get_variable(wcall.key, IF wcall.op \in {"any", "variable"} THEN wcall.variable_type
                             ELSE OpType(wcall.op))

\* a value without its handle and model classes: what == compares in Python
RECURSIVE Plain(_)
Plain(v) ==
    CASE IsStr(v) -> PyStr(TextOf(v))
      [] IsBytes(v) -> PyBytes(v.y)
      [] v.t = "list" -> PyList([i \in 1..Len(v.l) |-> Plain(v.l[i])])
      [] v.t \in {"dict", "BaseModel"} ->
            PyDict([i \in 1..Len(v.d) |-> Pair(v.d[i].k, Plain(v.d[i].v))])
      [] OTHER -> v

\* some string of the value holds a variable token
RECURSIVE HasToken(_)
HasToken(v) ==
    CASE IsStr(v) -> \E i \in 1..Len(TextOf(v)) : IsToken(TextOf(v)[i])
      [] v.t = "list" -> \E i \in 1..Len(v.l) : HasToken(v.l[i])
      [] v.t \in {"dict", "BaseModel"} -> \E i \in 1..Len(v.d) : HasToken(v.d[i].v)
      [] OTHER -> FALSE

\* the input of a write after the coercion documented for its type
Coerced(op, value) ==
    CASE op = "string" -> Plain(_coerce_string_value(value))
      [] op = "string_array" ->
            PyList([i \in 1..Len(value.l) |-> Plain(_coerce_string_value(value.l[i]))])
      [] OTHER -> Plain(value)

\* the store entry of the key of the read call, parsed
ReadStored == Stored(store, Context, Strip(rcall.key))
ReadStoredValue == _deserialize_data(store[<<Context, Strip(rcall.key)>>]).v

\* a validated typed write was committed and read back by the operation of the
\* same type, all flags at their defaults
ReadBack ==
    /\ pc = "read"
    /\ wcall.op \in TypedWriteOps
    /\ wcall.validate
    /\ Created(wlog)
    /\ rcall.op = wcall.op
    /\ rcall.resolve_embedded /\ rcall.b64decode /\ ~rcall.decode

\* C1: a typed write or any(), called with a non-null key and value and
\* when_requested at its default, whose resolved variable is not requested
\* returns None and sends the store nothing.
C1_NotRequestedIsNoOp ==
    ( /\ wcall.op \in TypedWriteOps \cup {"any"}
      /\ wcall.key # None
      /\ ~IsNone(wcall.value)
      /\ wcall.when_requested
      /\ WriteVariable # None
      /\ ~is_requested(WriteVariable) )
    => /\ wret = Return(PyNone)
       /\ wlog = <<>>

\* C2 as stated: every validated value a typed write commits is read back
\* equal to the input, up to the documented coercion and wrapping.
C2_RoundTrip ==
    ReadBack => /\ rret.raised = ""
                /\ Plain(rret.v) = Coerced(wcall.op, wcall.value)

\* C2, amended: the round trip holds for the values that hold no variable
\* token; a String, KeyValue or KeyValueArray read resolves the tokens of the
\* stored value, so such a value does not come back as written.
C2_RoundTripWithoutTokens ==
    ( /\ ReadBack
      /\ wcall.op \in {"string", "key_value", "key_value_array"} => ~HasToken(wcall.value) )
    => /\ rret.raised = ""
       /\ Plain(rret.v) = Coerced(wcall.op, wcall.value)

C2_Witness ==
    /\ ReadBack
    /\ wcall.op = "binary"
    /\ wcall.value = Bytes1
    /\ rret = Return(BinaryVariable(Bytes1.y))

\* the tokens of a text
TokensOf(text) == {text[i] : i \in {j \in 1..Len(text) : IsToken(text[j])}}

\* the text the read call scans for embedded variables itself
ScannedText ==
    CASE rcall.op = "string" /\ ReadStored /\ IsStr(ReadStoredValue) -> TextOf(ReadStoredValue)
      [] rcall.op = "key_value" /\ ReadStored /\ IsDict(ReadStoredValue)
         /\ HasKey(ReadStoredValue, "value") -> PyText(Get(ReadStoredValue, "value"))
      [] rcall.op = "variable" /\ IsStr(rcall.value) /\ ~IsVariableValue(rcall.value) ->
            _process_space_patterns(rcall.value.s)
      [] OTHER -> <<>>

\* C3: embedded resolution goes one level deep: a read through string,
\* key_value or variable issues store reads only for its own key and for
\* the tokens of the text it scans itself, never for a token that appears
\* only inside a fetched value.
C3_OneLevelOfNesting ==
    ( /\ rcall.op \in {"string", "key_value", "variable"}
      /\ rcall.resolve_embedded )
    => \A i \in 1..Len(rlog) :
          rlog[i].key \in {Strip(rcall.key)} \cup TokensOf(ScannedText)

\* C4: a typed read of a non-null key whose type tag is not the type of the
\* operation (compared without case) raises WrongType and reads nothing.
C4_WrongTypeBeforeStore ==
    ( /\ rcall.op \in TypedReadOps
      /\ rcall.key # None
      /\ Lower(get_playbook_variable_type(rcall.key)) # Lower(OpType(rcall.op)) )
    => /\ rret.raised = WrongType
       /\ rlog = <<>>

C4_Witness ==
    /\ rcall.op = "binary"
    /\ rcall.key = X
    /\ ReadStored
    /\ rret.raised = WrongType
    /\ rlog = <<>>

Resolved(token) ==
    IF token \in PbTokens THEN read_any(token, MaxDepth)
    ELSE Done(Return(resolve_variable(token)), <<>>)

ResolvesToString(token) ==
    /\ Resolved(token).raised = ""
    /\ IsStr(Resolved(token).v) \/ IsSensitive(Resolved(token).v)

\* the text with every token replaced by the string it resolves to
RECURSIVE Substituted(_)
Substituted(text) ==
    IF Len(text) = 0 THEN <<>>
    ELSE (IF IsToken(Head(text))
          THEN LET v == Resolved(Head(text)).v
               IN  IF IsSensitive(v) THEN v.s ELSE TextOf(v)
          ELSE <<Head(text)>>) \o Substituted(Tail(text))

\* a string read with embedded resolution of a stored string
EmbeddedRead ==
    /\ rcall.op = "string"
    /\ rcall.resolve_embedded
    /\ rcall.key # None
    /\ get_playbook_variable_type(rcall.key) = "String"
    /\ ReadStored
    /\ IsStr(ReadStoredValue)

\* C6: a String read of a stored text that holds variable tokens inside a
\* larger string returns the text with each token replaced by the string
\* the token resolves to, the other characters unchanged.
C6_EmbeddedSubstitution ==
    ( /\ EmbeddedRead
      /\ Len(TextOf(ReadStoredValue)) > 1
      /\ TokensOf(TextOf(ReadStoredValue)) # {}
      /\ \A token \in TokensOf(TextOf(ReadStoredValue)) : ResolvesToString(token) )
    => /\ rret.raised = ""
       /\ IsStr(rret.v)
       /\ TextOf(rret.v) = Substituted(TextOf(ReadStoredValue))

\* C7: a String read of a stored string that is exactly one token resolving
\* to a Sensitive value returns that Sensitive object; when the token is
\* part of a larger string the result is a plain string with the
\* confidential text in the place of the token.
C7_ExactMatchSensitive ==
    EmbeddedRead =>
      LET text == TextOf(ReadStoredValue)
      IN  /\ ( /\ Len(text) = 1
               /\ IsToken(text[1])
               /\ Resolved(text[1]).raised = ""
               /\ IsSensitive(Resolved(text[1]).v) )
             => rret = Return(Resolved(text[1]).v)
          /\ ( /\ Len(text) > 1
               /\ \A token \in TokensOf(text) : ResolvesToString(token)
               /\ \E token \in TokensOf(text) : IsSensitive(Resolved(token).v) )
             => /\ rret.raised = ""
                /\ rret.v.t = "str"
                /\ \A i \in 1..Len(text) :
                      (IsToken(text[i]) /\ IsSensitive(Resolved(text[i]).v))
                      => \E j \in 1..Len(rret.v.s) : rret.v.s[j] = Resolved(text[i]).v.s[1]

C7_Witness ==
    /\ EmbeddedRead
    /\ TextOf(ReadStoredValue) = <<KeychainToken>>
    /\ rret = Return(Sensitive(<<"s3cr3t">>))

\* C8: a list with null entries written by string_array is read back by
\* string_array with the same length and order, the null entries null and
\* every other entry the coerced string as a StringVariable.
C8_StringArrayNulls ==
    ( /\ pc = "read"
      /\ wcall.op = "string_array"
      /\ rcall.op = "string_array"
      /\ Created(wlog)
      /\ IsList(wcall.value)
      /\ \E i \in 1..Len(wcall.value.l) : IsNone(wcall.value.l[i]) )
    => /\ rret.raised = ""
       /\ IsList(rret.v)
       /\ Len(rret.v.l) = Len(wcall.value.l)
       /\ \A i \in 1..Len(wcall.value.l) :
             IF IsNone(wcall.value.l[i]) THEN IsNone(rret.v.l[i])
             ELSE rret.v.l[i] = StringVariable(TextOf(_coerce_string_value(wcall.value.l[i])))

C8_Witness ==
    /\ pc = "read"
    /\ wcall.op = "string_array"
    /\ rcall.op = "string_array"
    /\ wcall.value = PyList(<<StrA, PyNone, StrB>>)
    /\ rret = Return(PyList(<<StringVariable(StrA.s), PyNone, StringVariable(StrB.s)>>))

\* a dict without its key field or without its value field
Malformed(v) == IsDict(v) /\ ~(HasKey(v, "key") /\ HasKey(v, "value"))

\* the write call names a requested variable of the type of its operation
RequestedWrite ==
    /\ wcall.key # None
    /\ WriteVariable # None
    /\ is_requested(WriteVariable)
    /\ get_playbook_variable_type(WriteVariable) = OpType(wcall.op)

\* the one store call of the write is the create of the JSON text of value
Committed(value) ==
    /\ Len(wlog) = 1
    /\ wlog[1].m = "create"
    /\ wlog[1].context = Context
    /\ wlog[1].key = Strip(WriteVariable)
    /\ wlog[1].value.t = "jsonstr"
    /\ json_loads(wlog[1].value) = Return(Plain(value))

\* C9: key_value_array on a requested variable with a list that holds a
\* malformed element raises an invalid-data error and commits nothing when
\* validate is true, and commits the list as it is when validate is false.
C9_MalformedKeyValue ==
    ( /\ wcall.op = "key_value_array"
      /\ RequestedWrite
      /\ IsList(wcall.value)
      /\ \A i \in 1..Len(wcall.value.l) : IsDict(wcall.value.l[i]) \/ IsNone(wcall.value.l[i])
      /\ \E i \in 1..Len(wcall.value.l) : Malformed(wcall.value.l[i]) )
    => IF wcall.validate
       THEN wret.raised \in InvalidShape /\ wlog = <<>>
       ELSE wret.raised = "" /\ Committed(wcall.value)

C9_Witness ==
    /\ wcall.op = "key_value_array"
    /\ RequestedWrite
    /\ ~wcall.validate
    /\ wcall.value = PyList(<<KvPlain, KvNoValue>>)
    /\ Committed(wcall.value)

\* C10: key_value_array and tc_entity_array, validating, on a requested
\* variable and a list whose non-null elements are well formed, accept
\* null elements and commit the array with the nulls in their places.
C10_NullEntriesAllowed ==
    ( /\ wcall.op \in {"key_value_array", "tc_entity_array"}
      /\ wcall.validate
      /\ RequestedWrite
      /\ IsList(wcall.value)
      /\ \A i \in 1..Len(wcall.value.l) :
            \/ IsNone(wcall.value.l[i])
            \/ IF wcall.op = "key_value_array" THEN is_key_value(wcall.value.l[i])
               ELSE is_tc_entity(wcall.value.l[i])
      /\ \E i \in 1..Len(wcall.value.l) : IsNone(wcall.value.l[i]) )
    => /\ wret.raised = ""
       /\ Committed(wcall.value)

\* C11: a typed write with when_requested true and a non-null key and value
\* whose variable is not requested, or whose key resolves to nothing,
\* returns None and raises nothing, whatever the shape of the value.
C11_AbsenceNeverRaises ==
    ( /\ wcall.op \in TypedWriteOps
      /\ wcall.when_requested
      /\ wcall.key # None
      /\ ~IsNone(wcall.value)
      /\ WriteVariable = None \/ ~is_requested(WriteVariable) )
    => /\ wret.raised = ""
       /\ IsNone(wret.v)

ArrayWriteOps == {"binary_array", "key_value_array", "string_array", "tc_entity_array"}

\* a typed write whose key is a variable of another type than the operation
\* and passes the requested check
WrongTypeWrite ==
    /\ wcall.op \in TypedWriteOps
    /\ is_playbook_variable(wcall.key)
    /\ is_requested(wcall.key) \/ ~wcall.when_requested
    /\ Lower(get_playbook_variable_type(wcall.key)) # Lower(OpType(wcall.op))

\* C12 as stated: such a write raises a validation error and the client's
\* create is not called.
C12_WriteWrongType ==
    WrongTypeWrite => /\ wret.raised # ""
                      /\ ~Created(wlog)

\* C12, amended: such a write of a non-null value raises and calls the store
\* client not at all; the error is WrongType, or the error of
\* _check_iterable when an array operation is given a value that fails it.
C12_WriteWrongTypeNonNull ==
    (WrongTypeWrite /\ ~IsNone(wcall.value))
    => /\ wlog = <<>>
       /\ IF wcall.op \in ArrayWriteOps /\ _check_iterable(wcall.value, wcall.validate).raised # ""
          THEN wret.raised = InvalidIterable
          ELSE wret.raised = WrongType

C12_Witness ==
    /\ wcall.op = "string"
    /\ wcall.key = XBinary
    /\ is_requested(XBinary)
    /\ wcall.value = StrA
    /\ wret.raised = WrongType
    /\ wlog = <<>>

\* C13: a write whose client.create fails returns None and raises nothing,
\* so the App goes on; what a later write call creates is in the store.
C13_StoreWriteSoftFail ==
    /\ CreateFailed(wlog) => /\ wret = Return(PyNone)
                             /\ pc = "failed"
    /\ (soft_failed /\ Created(wlog))
       => \A i \in 1..Len(wlog) :
             wlog[i].m = "create"
             => /\ Stored(store, wlog[i].context, wlog[i].key)
                /\ store[<<wlog[i].context, wlog[i].key>>] = wlog[i].value

C13_Witness ==
    /\ soft_failed
    /\ pc = "written"
    /\ wcall.op = "key_value"
    /\ wcall.value = KvPlain
    /\ Stored(store, Context, "#App:1:kv!KeyValue")
    /\ ~Stored(store, Context, X)

\* the read call names a variable of the operation's type that the store does
\* not hold, or that the client fails to read
ReadAbsent ==
    /\ rcall.op \in TypedReadOps \cup {"raw", "any"}
    /\ rcall.key # None
    /\ rcall.op \in TypedReadOps =>
           Lower(get_playbook_variable_type(Strip(rcall.key))) = Lower(OpType(rcall.op))
    /\ Strip(rcall.key) \in failing \/ ~ReadStored

\* C14: a typed read, raw or any, called with a non-null key of the right
\* type, returns None without raising when the store does not hold the key or
\* the store client fails during the read.
C14_ReadSoftFail == ReadAbsent => rret = Return(PyNone)

\* the same for the nine typed reads alone, which read through _get_data
C14_TypedReadSoftFail ==
    (ReadAbsent /\ rcall.op \in TypedReadOps) => rret = Return(PyNone)

\* the type hint a write operation resolves its key with
WriteHint ==
    IF wcall.op \in {"any", "variable"} THEN wcall.variable_type ELSE OpType(wcall.op)

\* the requested entries, by position, with the bare key of the write call
\* and, when a hint is given, exactly the type of the hint
Qualifying ==
    { i \in 1..Len(output_variables) :
        \E m \in PlaybookVariables :
            /\ m.text = output_variables[i]
            /\ m.key = wcall.key
            /\ WriteHint # None => m.type = WriteHint }

\* C15: the key of a write resolves to itself when it is a fully-qualified
\* variable, otherwise to the first requested entry, in declaration order,
\* with that bare key and (when a type hint is given) exactly that type, and
\* to none when no entry qualifies; a commit is made under the resolved
\* variable.
C15_KeyResolution ==
    (wcall.op \in TypedWriteOps \cup {"any", "variable"} /\ wcall.key # None) =>
        /\ wcall.key \in PbTokens => WriteVariable = wcall.key
        /\ (wcall.key \notin PbTokens /\ Qualifying = {}) =>
               WriteVariable = None /\ ~Created(wlog)
        /\ (wcall.key \notin PbTokens /\ Qualifying # {}) =>
               \E i \in Qualifying :
                   /\ WriteVariable = output_variables[i]
                   /\ \A j \in Qualifying : i <= j
        /\ \A i \in 1..Len(wlog) : wlog[i].m = "create" => wlog[i].key = WriteVariable

\* the bare key x is requested as Binary first and as String second: the
\* string operation commits under the String variable
C15_Witness ==
    /\ wcall.op = "string" /\ wcall.key = "x" /\ wcall.value = StrA
    /\ output_variables = OutputsAll
    /\ Created(wlog) /\ wlog[1].key = X
    /\ Stored(store, Context, X) /\ ~Stored(store, Context, XBinary)

\* the matches of '#' variables in a text, one per occurrence
PbMatches(text) == {j \in 1..Len(text) : text[j] \in PbTokens}

\* a String read that runs embedded resolution: the stored text is not
\* exactly one variable
ScanningRead == EmbeddedRead /\ ~IsVariableValue(ReadStoredValue)

\* C16: a String read with embedded resolution returns without running out
\* of stack, whatever the store holds, and a stored text with N matches of
\* playbook variables causes exactly N store reads after the read of the
\* variable itself.
C16_BoundedRecursion ==
    ScanningRead =>
        /\ rret.raised # RecursionErrorRaised
        /\ Len(rlog) = 1 + Cardinality(PbMatches(TextOf(ReadStoredValue)))

\* the first half alone: no read runs out of stack
C16_NoRecursionError == rret.raised # RecursionErrorRaised

\* the second half alone
C16_ReadsPerMatch ==
    ScanningRead => Len(rlog) = 1 + Cardinality(PbMatches(TextOf(ReadStoredValue)))

\* the kinds of token the placeholders are for
IsBinaryToken(token) ==
    token \in PbTokens /\ get_playbook_variable_type(token) \in {"Binary", "BinaryArray"}
ResolvesToNone(token) ==
    ~IsBinaryToken(token) /\ Resolved(token).raised = "" /\ IsNone(Resolved(token).v)
ResolvesToObject(token) ==
    /\ ~IsBinaryToken(token) /\ Resolved(token).raised = ""
    /\ IsDict(Resolved(token).v) \/ IsList(Resolved(token).v)

\* the text the claim puts in the place of such a token
Placeholder(token) ==
    CASE IsBinaryToken(token) -> <<"<binary>">>
      [] ResolvesToNone(token) -> <<"<null>">>
      [] OTHER -> TextOf(json_dumps(Resolved(token).v).v)

\* the text with every token replaced by its placeholder
RECURSIVE WithPlaceholders(_)
WithPlaceholders(text) ==
    IF Len(text) = 0 THEN <<>>
    ELSE (IF IsToken(Head(text)) THEN Placeholder(Head(text)) ELSE <<Head(text)>>)
         \o WithPlaceholders(Tail(text))

\* a String read that scans a stored text all of whose tokens are of the
\* three kinds
PlaceholderRead ==
    /\ ScanningRead
    /\ TokensOf(TextOf(ReadStoredValue)) # {}
    /\ \A token \in TokensOf(TextOf(ReadStoredValue)) :
          IsBinaryToken(token) \/ ResolvesToNone(token) \/ ResolvesToObject(token)

\* C17: in a String read with embedded resolution, a Binary or BinaryArray
\* token is replaced by <binary> whatever the store holds for it, a token that
\* resolves to None by <null>, a token that resolves to a dict or a list by
\* its JSON text, and no token of the stored text is left in the result.
C17_Placeholders ==
    PlaceholderRead =>
        /\ rret.raised = ""
        /\ IsStr(rret.v)
        /\ TextOf(rret.v) = WithPlaceholders(TextOf(ReadStoredValue))
        /\ \A i \in 1..Len(TextOf(rret.v)) :
              TextOf(rret.v)[i] \notin TokensOf(TextOf(ReadStoredValue))

\* the placeholders alone, for the texts whose Binary and BinaryArray tokens
\* any() reads without an error
C17_PlaceholdersWhenRead ==
    ( /\ PlaceholderRead
      /\ \A token \in TokensOf(TextOf(ReadStoredValue)) : Resolved(token).raised = "" )
    => /\ rret.raised = ""
       /\ IsStr(rret.v)
       /\ TextOf(rret.v) = WithPlaceholders(TextOf(ReadStoredValue))

\* the typed write operation of a type tag, tags compared without case, and
\* raw for any other tag
TypedWrite(tag, variable, value, validate, when_requested) ==
    CASE Lower(tag) = Lower("Binary") -> create_binary(variable, value, validate, when_requested)
      [] Lower(tag) = Lower("BinaryArray") ->
            create_binary_array(variable, value, validate, when_requested)
      [] Lower(tag) = Lower("KeyValue") ->
            create_key_value(variable, value, validate, when_requested)
      [] Lower(tag) = Lower("KeyValueArray") ->
            create_key_value_array(variable, value, validate, when_requested)
      [] Lower(tag) = Lower("String") -> create_string(variable, value, validate, when_requested)
      [] Lower(tag) = Lower("StringArray") ->
            create_string_array(variable, value, validate, when_requested)
      [] Lower(tag) = Lower("TCBatch") ->
            create_tc_batch(variable, value, validate, when_requested)
      [] Lower(tag) = Lower("TCEntity") ->
            create_tc_entity(variable, value, validate, when_requested)
      [] Lower(tag) = Lower("TCEntityArray") ->
            create_tc_entity_array(variable, value, validate, when_requested)
      [] OTHER -> create_raw(variable, value, validate, when_requested)

\* an any() call with a non-null value whose key resolves to a variable is
\* made in this step; the typed operation is taken on the store before it
AnyStep ==
    /\ wcall'.op = "any"
    /\ wcall'.key # None
    /\ ~IsNone(wcall'.value)
    /\ _get_variable(wcall'.key, wcall'.variable_type) # None
TypedStep ==
    LET variable == _get_variable(wcall'.key, wcall'.variable_type)
    IN  TypedWrite(get_playbook_variable_type(variable), variable, wcall'.value,
                   wcall'.validate, wcall'.when_requested)

\* C18: any(key, value) sends the store the same calls and returns the same
\* result (or raises the same error) as the typed write operation of the type
\* tag of the variable the key resolves to, raw when the tag is none of the
\* nine wire types.
C18_DispatcherEquivalence ==
    [][ AnyStep => /\ wret' = [raised |-> TypedStep.raised, v |-> TypedStep.v]
                   /\ wlog' = TypedStep.log ]_vars

\* the same for the variables that are requested, or written with
\* when_requested off
C18_DispatcherEquivalenceRequested ==
    [][ ( /\ AnyStep
          /\ \/ ~wcall'.when_requested
             \/ is_requested(_get_variable(wcall'.key, wcall'.variable_type)) )
        => /\ wret' = [raised |-> TypedStep.raised, v |-> TypedStep.v]
           /\ wlog' = TypedStep.log ]_vars

\* the same for the variables of the nine wire types alone, requested or not
C18_WireTypeEquivalence ==
    [][ ( /\ AnyStep
          /\ Lower(get_playbook_variable_type(_get_variable(wcall'.key, wcall'.variable_type)))
                 \in {Lower(OpType(op)) : op \in TypedWriteOps} )
        => /\ wret' = [raised |-> TypedStep.raised, v |-> TypedStep.v]
           /\ wlog' = TypedStep.log ]_vars

\* a typed write with validation off, on a requested variable of the type of
\* the operation, of a non-null value that the same call with validation on
\* rejects
UnvalidatedWrite ==
    /\ wcall.op \in TypedWriteOps
    /\ ~wcall.validate
    /\ wcall.key # None
    /\ ~IsNone(wcall.value)
    /\ WriteVariable # None
    /\ is_requested(WriteVariable)
    /\ Lower(get_playbook_variable_type(WriteVariable)) = Lower(OpType(wcall.op))
    /\ TypedWrite(OpType(wcall.op), WriteVariable, wcall.value, TRUE,
                  wcall.when_requested).raised # ""

\* C19: with validate off, a typed write on a requested variable of the right
\* type never raises for a value that validation would reject, and commits
\* it to the store.
C19_ValidateOffNeverRaises ==
    UnvalidatedWrite => wret.raised = "" /\ Created(wlog)

\* a key_value or key_value_array read of a stored value of that type
KeyValueRead ==
    /\ rcall.op \in {"key_value", "key_value_array"}
    /\ rcall.key # None
    /\ Lower(get_playbook_variable_type(rcall.key)) = Lower(OpType(rcall.op))
    /\ ReadStored
    /\ IF rcall.op = "key_value" THEN IsDict(ReadStoredValue) ELSE IsList(ReadStoredValue)

\* the stored objects of the read, and those the read returned
StoredItems == IF rcall.op = "key_value" THEN <<ReadStoredValue>> ELSE ReadStoredValue.l
ReturnedItems == IF rcall.op = "key_value" THEN <<rret.v>> ELSE rret.v.l

\* what the value field of a stored object is to be replaced by: the result
\* of any() when it is exactly one variable, else its embedded resolution
FieldResolution(item) ==
    IF IsVariableValue(Get(item, "value"))
    THEN read_any(Get(item, "value").s[1], MaxDepth)
    ELSE _read_embedded(Get(item, "value"), MaxDepth)

\* every stored object has a value field, and every resolution returns
Resolvable ==
    \A i \in 1..Len(StoredItems) :
        /\ IsDict(StoredItems[i])
        /\ HasKey(StoredItems[i], "value")
        /\ FieldResolution(StoredItems[i]).raised = ""

\* C20: key_value, and key_value_array for each element, with
\* resolve_embedded on return the stored object with its value field
\* replaced by the result of any() when the field is exactly one variable and
\* by its embedded resolution otherwise, every other field (key among them)
\* as stored; with resolve_embedded off they return the stored object as it
\* is after one store read.
C20_KeyValuePostProcessing ==
    KeyValueRead =>
        IF rcall.resolve_embedded
        THEN Resolvable =>
               /\ rret.raised = ""
               /\ rcall.op = "key_value" => IsDict(rret.v)
               /\ rcall.op = "key_value_array" => IsList(rret.v)
               /\ Len(ReturnedItems) = Len(StoredItems)
               /\ \A i \in 1..Len(StoredItems) :
                     /\ IsDict(ReturnedItems[i])
                     /\ Len(ReturnedItems[i].d) = Len(StoredItems[i].d)
                     /\ \A j \in 1..Len(StoredItems[i].d) :
                           /\ ReturnedItems[i].d[j].k = StoredItems[i].d[j].k
                           /\ ReturnedItems[i].d[j].v =
                                 IF StoredItems[i].d[j].k = "value"
                                 THEN FieldResolution(StoredItems[i]).v
                                 ELSE StoredItems[i].d[j].v
        ELSE /\ rret = Return(ReadStoredValue)
             /\ Len(rlog) = 1

\* the stored array holds a value that is exactly one variable the store does
\* not hold (None is put in its place), a text that embeds a variable and a
\* plain text; and the same array read with resolve_embedded off
C20_Witness ==
    /\ KeyValueRead /\ rcall.op = "key_value_array" /\ rcall.resolve_embedded
    /\ store = StoreTypes
    /\ rret = Return(PyList(<<KeyValue("k", PyStr(<<"hello ", "there", " world">>)), KvPlain,
                              KeyValue("k", PyNone)>>))
    /\ Len(rlog) = 3

\* the transform as one pass over the text: a double backslash and s becomes
\* backslash and s, a backslash and s not preceded by a backslash becomes a
\* space, every other chunk stays
RECURSIVE SpaceEscaped(_, _)
SpaceEscaped(text, i) ==
    IF i > Len(text) THEN <<>>
    ELSE IF i + 2 <= Len(text) /\ SubSeq(text, i, i + 2) = <<"\\", "\\", "s">>
    THEN <<"\\", "s">> \o SpaceEscaped(text, i + 3)
    ELSE IF /\ i + 1 <= Len(text) /\ SubSeq(text, i, i + 1) = <<"\\", "s">>
            /\ (i = 1 \/ text[i - 1] # "\\")
    THEN <<" ">> \o SpaceEscaped(text, i + 2)
    ELSE <<text[i]>> \o SpaceEscaped(text, i + 1)

\* a variable() read of a str, the result not turned into an array
FreeFormRead == rcall.op = "variable" /\ IsStr(rcall.value) /\ ~rcall.array

\* the str is, once stripped, exactly one playbook variable
ExactlyVariable ==
    Len(rcall.value.s) = 1 /\ is_playbook_variable(Strip(rcall.value.s[1]))

\* C21: variable() on a free-form string turns every backslash+s that no
\* backslash precedes into a space and every double backslash+s into
\* backslash+s, leaves every other character as it is, and resolves the
\* variables of the result; a string that is exactly one variable is read
\* with any() and not transformed.
C21_SpaceEscape ==
    FreeFormRead =>
        IF ExactlyVariable
        THEN LET r == read_any(Strip(rcall.value.s[1]), MaxDepth)
             IN  rret = [raised |-> r.raised, v |-> r.v]
        ELSE /\ TokensOf(rcall.value.s) = {} =>
                   rret = Return(PyStr(SpaceEscaped(rcall.value.s, 1)))
             /\ LET r == _read_embedded(PyStr(SpaceEscaped(rcall.value.s, 1)), MaxDepth)
                IN  rret = [raised |-> r.raised, v |-> r.v]

\* three backslashes and s: the second rule applies, the first does not
C21_Witness ==
    /\ FreeFormRead
    /\ rcall.value = PyStr(<<"\\", "\\", "\\", "s">>)
    /\ rret = Return(PyStr(<<"\\", "\\", "s">>))

\* a write through the alias variable() is made in this step, and the
\* variable its key resolves to with the type hint of the call
VariableStep == wcall'.op = "variable" /\ wcall'.key # None
VariableResolved == _get_variable(wcall'.key, wcall'.variable_type)

\* what the claim gives the alias: nothing when no variable is requested, the
\* key does not resolve or the variable is not requested, else what any()
\* does with the resolved variable, validation and when_requested on
AliasOutcome ==
    IF \/ Len(output_variables) = 0
       \/ VariableResolved = None
       \/ ~is_requested(VariableResolved)
    THEN Done(Return(PyNone), <<>>)
    ELSE create_any(VariableResolved, wcall'.value, TRUE, None, TRUE)

\* C22 as stated: for every value, the alias returns None and sends the store
\* nothing in the three cases, and otherwise does what any() does.
C22_VariableAlias ==
    [][ VariableStep => /\ wret' = [raised |-> AliasOutcome.raised, v |-> AliasOutcome.v]
                        /\ wlog' = AliasOutcome.log ]_vars

\* C22, amended: the same for the values that are not None; a None value
\* can leave the null marker of the variable in the store before any of
\* the three tests is made.
C22_VariableAliasNonNull ==
    [][ (VariableStep /\ ~IsNone(wcall'.value))
        => /\ wret' = [raised |-> AliasOutcome.raised, v |-> AliasOutcome.v]
           /\ wlog' = AliasOutcome.log ]_vars

\* the alias resolves the bare key x with the hint String and commits what
\* any() commits for the String variable
C22_Witness ==
    /\ wcall.op = "variable" /\ wcall.key = "x" /\ wcall.variable_type = "String"
    /\ wcall.value = StrA
    /\ output_variables = OutputsAll
    /\ wret = Return(PyInt(1))
    /\ Len(wlog) = 1 /\ wlog[1].m = "create" /\ wlog[1].key = X

\* the calls of a log that write to the store
StoreWrites(log) == {i \in 1..Len(log) : log[i].m \in {"create", "hset"}}

\* a write operation is called and returns or raises in this step
WriteStep == pc = "idle" /\ wcall'.op # ""

\* C23: a write operation that raises leaves the store as it was before the
\* call, and every write operation, any() and variable() included, sends the
\* store at most one write.
C23_NoPartialEffect ==
    [][ WriteStep => /\ wret'.raised # "" => store' = store /\ StoreWrites(wlog') = {}
                     /\ Cardinality(StoreWrites(wlog')) <= 1
                     /\ Len(wlog') <= 1 ]_vars

\* a key_value_array whose second element has no value field is rejected
\* after the first element passed, and nothing is in the store
C23_Witness ==
    /\ wcall.op = "key_value_array" /\ wcall.key = "#App:1:kva!KeyValueArray"
    /\ wcall.validate /\ wcall.value = PyList(<<KvPlain, KvNoValue>>)
    /\ is_requested(wcall.key)
    /\ wret.raised = InvalidKeyValue
    /\ wlog = <<>>
    /\ store = StoreEmpty

\* a read operation is called, for the first or the second time, in this step
ReadStep == pc' \in {"read", "reread"} /\ pc # pc'

\* C24: a read operation, whatever it resolves on the way, leaves the store
\* of every context and the requested output variables as they were and
\* sends the store nothing but reads; the same read made a second time
\* returns the same result after the same store reads.
C24_ReadsChangeNothing ==
    [][ ReadStep => /\ store' = store
                    /\ output_variables' = output_variables
                    /\ \A i \in 1..Len(rlog') : rlog'[i].m \in {"read", "read_failed"}
                    /\ pc' = "reread" => rret' = rret /\ rlog' = rlog ]_vars

\* a KeyValueArray whose values are resolved from three store reads is read a
\* second time
C24_Witness ==
    /\ pc = "reread"
    /\ rcall.op = "key_value_array" /\ rcall.resolve_embedded
    /\ store = StoreTypes
    /\ Len(rlog) = 3
    /\ rret = Return(PyList(<<KeyValue("k", PyStr(<<"hello ", "there", " world">>)), KvPlain,
                              KeyValue("k", PyNone)>>))

\* the create calls of a log
Creates(log) == {i \in 1..Len(log) : log[i].m = "create"}

\* the position of the create call in the log of a write that committed
WrittenIndex == CHOOSE i \in 1..Len(wlog) : wlog[i].m = "create"

\* the key a write call is to commit under: the key as given for raw(), the
\* fully-qualified variable the key resolves to for every other write
CommitVariable == IF wcall.op = "raw" THEN wcall.key ELSE WriteVariable

====
